---- MODULE Spec2Model ----
(***************************************************************************)
(* Declaration-graph traversal of get_external_symbols.ts (the variant     *)
(* backed by a ts.Program): getExternalSymbols / findSymbolNames /         *)
(* loadReferencedFile, run as a stack machine.  One frame of `stack` is    *)
(* one activation of findSymbolNames; the documents (parsed source files)  *)
(* are supplied by the document store when a file is first read.           *)
(*                                                                         *)
(* Paths are sequences of segments; an absolute path starts with "/".      *)
(***************************************************************************)
EXTENDS Integers, Sequences, FiniteSets, TLC

\* ---------------------------------------------------------------- bounds
\* total number of reference nodes (imports, re-exports, triple-slash
\* references) in the documents of one corpus
MaxRefs == 2
\* length of the caller's entry list `files`
MaxEntries == 2

\* ----------------------------------------------------------------- paths
Cwd == <<"/">>
FileA == <<"/", "a">>
FileB == <<"/", "b">>
FileNode == <<"/", "node_modules", "@types", "node", "index.d.ts">>
\* the files that exist on the file system
FileSystem == {FileA, FileB, FileNode}

IsAbsolute(p) == Len(p) > 0 /\ p[1] = "/"

Dirname(p) == IF Len(p) > 1 THEN SubSeq(p, 1, Len(p) - 1) ELSE p

RECURSIVE NormalizeSegments(_, _)
NormalizeSegments(rest, acc) ==
  IF rest = <<>> THEN acc
  ELSE LET s == Head(rest) IN
       IF s = "." THEN NormalizeSegments(Tail(rest), acc)
       ELSE IF s = ".."
            THEN NormalizeSegments(Tail(rest),
                   IF Len(acc) > 1 THEN SubSeq(acc, 1, Len(acc) - 1) ELSE acc)
            ELSE NormalizeSegments(Tail(rest), Append(acc, s))

\* as PathResolve, returning the path as given
PathResolveAsGiven(p) == p

\* path.resolve(p): absolute, normalised
PathResolve(p) ==
  IF IsAbsolute(p) THEN NormalizeSegments(Tail(p), <<"/">>)
  ELSE NormalizeSegments(p, Cwd)

\* ts.resolveTripleslashReference(moduleName, containingFile)
ResolveTripleslashReference(moduleName, containingFile) ==
  IF IsAbsolute(moduleName) THEN NormalizeSegments(Tail(moduleName), <<"/">>)
  ELSE NormalizeSegments(moduleName, Dirname(containingFile))

\* ------------------------------------------------------ module resolution
NoFile == <<>>
Specifiers == {"./b", "node", "./missing"}

\* the file a relative specifier names, next to the containing file
RelativeTarget(moduleName) ==
  IF moduleName = "./b" THEN <<"b">> ELSE <<"missing">>

\* getDefaultResolveModule(compilerOptions)(moduleName, containingFile):
\* result.resolvedModule && result.resolvedModule.resolvedFileName
ResolveModule(moduleName, containingFile) ==
  IF moduleName = "node"
  THEN IF FileNode \in FileSystem THEN FileNode ELSE NoFile
  ELSE LET candidate == NormalizeSegments(RelativeTarget(moduleName),
                                          Dirname(containingFile))
       IN IF candidate \in FileSystem THEN candidate ELSE NoFile

\* ------------------------------------------------------------- documents
\* node.name: an identifier with its text, or no identifier (a missing name,
\* a string literal, a binding pattern)
Identifier(text) == [isIdentifier |-> TRUE, text |-> text]
NoIdentifier == [isIdentifier |-> FALSE, text |-> ""]

NoSpecifier == [present |-> FALSE, isStringLiteral |-> FALSE, text |-> ""]
NonLiteral == [present |-> TRUE, isStringLiteral |-> FALSE, text |-> ""]
Literal(t) == [present |-> TRUE, isStringLiteral |-> TRUE, text |-> t]

ImportDeclaration(spec) ==
  [kind |-> "ImportDeclaration", moduleSpecifier |-> spec,
   declare |-> FALSE, names |-> <<>>]
ExportDeclaration(spec) ==
  [kind |-> "ExportDeclaration", moduleSpecifier |-> spec,
   declare |-> FALSE, names |-> <<>>]
VariableStatement(declare, names) ==
  [kind |-> "VariableStatement", moduleSpecifier |-> NoSpecifier,
   declare |-> declare, names |-> names]

\* the statements that refer to another document
ReferenceStatements ==
  {ImportDeclaration(Literal(s)) : s \in Specifiers}
    \cup {ExportDeclaration(Literal("./b"))}
    \cup {ExportDeclaration(NoSpecifier), ImportDeclaration(NonLiteral)}

\* the paths of /// <reference path="..." /> comments
TripleSlashPaths == {<<"b">>, FileA}

\* declare const foo: string;
FooStatement == VariableStatement(TRUE, <<Identifier("foo")>>)

\* a document's statements: a declaration before, between and after its
\* reference statements, so that every position of the result is observable
RECURSIVE Interleave(_)
Interleave(refs) ==
  IF refs = <<>> THEN <<FooStatement>>
  ELSE <<FooStatement, Head(refs)>> \o Interleave(Tail(refs))

SeqsUpTo(S, n) == UNION {[1..k -> S] : k \in 0..n}

NoDoc == [referencedFiles |-> <<>>, statements |-> <<>>, read |-> FALSE]

\* no source file node
NoTree == <<>>

RefCount(doc) ==
  Len(doc.referencedFiles)
    + Cardinality({i \in 1..Len(doc.statements) :
                     doc.statements[i].kind \in
                       {"ImportDeclaration", "ExportDeclaration"}})


\* ------------------------------------------------------------------ state
VARIABLES
  files,             \* getExternalSymbols argument: the entry list
  dontFollow,        \* getExternalSymbols argument: the caller's seed
  program,           \* the files of the compilation unit (ts.Program)
  docs,              \* document store: the source files read so far
  phase,             \* "idle" | "running" | "returned" | "thrown"
  sourceFiles,       \* entries still to be reduced over
  mergedDontFollow,  \* the visited set of the running call
  stack,             \* activations of findSymbolNames, innermost last
  acc,               \* accumulator of sourceFiles.reduce
  result,            \* the list getExternalSymbols returned
  classified,        \* log: sourceFile.fileName of each findSymbolNames call
  loaded,            \* log: paths whose document loadReferencedFile fetched
  resolveCalls,      \* log: arguments of each resolveModule call
  followed,          \* log: which activation called which, and from where
  steps,             \* number of steps the call has taken
  tree,              \* the source file node findSymbolNames classifies
  pending,           \* nodes visitNode has still to visit, next one first
  emitted,           \* findSymbolNames: the symbols pushed so far
  warnings,          \* log: the messages handed to warn
  checkerCalls,      \* log: the nodes handed to checker.getTypeAtLocation
  emittedLightweight, \* the symbols pushed by the variant without a checker
  previous,          \* log: the outcome of the caller's earlier call, if any
  request,           \* library.ts: the arguments of the call
  library,           \* the Library the function of createApplyDefaults returned
  converted,         \* the results of the module name conversions
  searchPath,        \* findPackage: the directory to probe next, or false
  searching,         \* findPackage: the moduleName argument of the running call
  probed,            \* log: the paths handed to fileSystem.existsSync
  globs              \* the results of attemptResolve(TypesModule) so far

\* the state of the traversal of the reference graph, and the state of the
\* classification of one document's nodes
graphVars == <<files, dontFollow, program, docs, phase, sourceFiles,
               mergedDontFollow, stack, acc, result, classified, loaded,
               resolveCalls, followed, steps>>
nodeVars == <<tree, pending, emitted, warnings, checkerCalls,
              emittedLightweight>>
\* the state of a call into library.ts
libraryVars == <<request, library, converted, searchPath, searching, probed,
                 globs>>

vars == <<files, dontFollow, program, docs, phase, sourceFiles,
          mergedDontFollow, stack, acc, result, classified, loaded,
          resolveCalls, followed, steps, tree, pending, emitted, warnings,
          checkerCalls, emittedLightweight, previous, request, library, converted, searchPath,
          searching, probed, globs>>

\* ------------------------------------------------------------ ignore filter
\* as isNotIgnored, with no rule in ignored_typings
isNotIgnoredByNoRule(fileName) == TRUE

EndsWithNodeModules(segment) == segment = "node_modules"
StartsWithNode(segment) == segment \in {"node", "node_modules"}

\* ignored_typings: /node_modules\/@types\/node/ tested on a file name
MatchesIgnoredTypings(fileName) ==
  \E i \in 1..Len(fileName) :
    /\ i + 2 <= Len(fileName)
    /\ EndsWithNodeModules(fileName[i])
    /\ fileName[i + 1] = "@types"
    /\ StartsWithNode(fileName[i + 2])

isNotIgnored(fileName) == ~MatchesIgnoredTypings(fileName)

\* program.getSourceFile(file) is defined
isDefined(file) == PathResolve(file) \in program

RECURSIVE SelectSeq2(_, _)
SelectSeq2(s, keep) ==
  IF s = <<>> THEN <<>>
  ELSE IF Head(s) \in keep
       THEN <<Head(s)>> \o SelectSeq2(Tail(s), keep)
       ELSE SelectSeq2(Tail(s), keep)

Range(s) == {s[i] : i \in 1..Len(s)}

\* Array.from(files).map(program.getSourceFile).filter(isDefined).filter(isNotIgnored)
EntrySourceFiles(fs) ==
  SelectSeq2(fs, {f \in Range(fs) : isDefined(f) /\ isNotIgnored(f)})

\* as MergedDontFollow, with the entry files left out of the visited set
MergedDontFollowSeedOnly(fs, seed) ==
  {PathResolve(p) : p \in seed}

\* as MergedDontFollow, with the caller's seed left out of the visited set
MergedDontFollowEntriesOnly(fs, seed) ==
  {PathResolve(p) : p \in Range(fs)}

\* as MergedDontFollow, with the Set of the earlier call kept and added to
MergedDontFollowKept(fs, seed) ==
  mergedDontFollow \cup {PathResolve(p) : p \in Range(fs) \cup seed}

\* as MergedDontFollow, built from the entries that passed the filters
MergedDontFollowSourceFiles(fs, seed) ==
  {PathResolve(p) : p \in Range(EntrySourceFiles(fs)) \cup seed}

\* new Set([...files, ...dontFollow].map((p) => path.resolve(p)))
MergedDontFollow(fs, seed) ==
  {PathResolve(p) : p \in Range(fs) \cup seed}

\* --------------------------------------------------------- document store
Budget ==
  LET used[S \in SUBSET FileSystem] ==
        IF S = {} THEN 0
        ELSE LET f == CHOOSE x \in S : TRUE
             IN RefCount(docs[f]) + used[S \ {f}]
  IN MaxRefs - used[FileSystem]

\* what reading file f can return: the document already read, or any
\* document the corpus still has room for
DocChoices(f) ==
  IF docs[f].read THEN {docs[f]}
  ELSE {[referencedFiles |-> rs[1], statements |-> Interleave(rs[2]),
         read |-> TRUE] :
          rs \in UNION {SeqsUpTo(TripleSlashPaths, Budget - k)
                           \X [1..k -> ReferenceStatements] :
                         k \in 0..Budget}}

\* ------------------------------------------------------------------ frames
\* an activation of findSymbolNames(sourceFile): `ref` is the next
\* referencedFiles entry of visitSourceFile, `pc` the next child statement,
\* `call` the number of the activation (its place in `classified`)
Frame(f, call) ==
  [sourceFile |-> f, ref |-> 1, pc |-> 1, symbols |-> <<>>, call |-> call]

Top == stack[Len(stack)]
Below == SubSeq(stack, 1, Len(stack) - 1)

\* an ExternalSymbol; `node` is the place of the name's statement in its
\* document and `call` the activation that emitted it
Symbol(type, name, node, sourceFile, call) ==
  [type |-> type, name |-> name, node |-> node, sourceFile |-> sourceFile,
   call |-> call]

\* visitName for each declarator of a variable statement
RECURSIVE VisitNames(_, _, _, _, _)
VisitNames(names, type, node, sourceFile, call) ==
  IF names = <<>> THEN <<>>
  ELSE (IF Head(names).isIdentifier
        THEN <<Symbol(type, Head(names).text, node, sourceFile, call)>>
        ELSE <<>>)
         \o VisitNames(Tail(names), type, node, sourceFile, call)

\* as isDeclared, asking for the ambient context instead of the modifier
isInAmbientContext(node) == "Ambient" \in node.flags

isDeclared(node) == node.declare

visitVariableStatement(node, at, frame) ==
  VisitNames(node.names,
             IF isDeclared(node) THEN "DECLARATION" ELSE "PROPERTY",
             at, frame.sourceFile, frame.call)

\* as PushAll, putting the new symbols in front
PushAllInFront(symbols, more) == more \o symbols

\* symbols.push(...more) and symbols.concat(more)
PushAll(symbols, more) == symbols \o more

\* as DontFollowHas, asking the caller's seed instead of the merged Set
DontFollowHasSeed(set, file) == file \in {PathResolve(p) : p \in dontFollow}

\* dontFollow.has(file)
DontFollowHas(set, file) == file \in set

\* as DontFollowAdd, forgetting the file
DontFollowAddNothing(set, file) == set

\* as DontFollowAdd, on a Set of the frame's own instead of the shared one
DontFollowAddToOwn(set, file) == {file}

\* as DontFollowAdd, called once readFileSync has returned the source
DontFollowAddAfterRead(set, file) ==
  IF file \in FileSystem THEN set \cup {file} ELSE set

\* dontFollow.add(file)
DontFollowAdd(set, file) == set \cup {file}

\* as IsModuleSpecifierNode, without the export declarations
IsImportNode(node) == node.kind = "ImportDeclaration"

\* the node kinds visitNode hands to visitModuleSpecifier
IsModuleSpecifierNode(node) ==
  node.kind \in {"ImportDeclaration", "ExportDeclaration"}

\* as IsStringLiteral, taking every specifier for a literal
IsAnySpecifier(moduleSpecifier) == TRUE

\* ts.isStringLiteral(node.moduleSpecifier)
IsStringLiteral(moduleSpecifier) == moduleSpecifier.isStringLiteral

\* as IsResolved, taking every answer of the resolver for a file
IsAnyAnswer(file) == TRUE

\* if (file): the resolver found a file
IsResolved(file) == file # NoFile

\* as ContainingFile, naming the entry file the traversal started from
ContainingEntryFile(frame) == stack[1].sourceFile

\* sourceFile.fileName, the containing file handed to the resolvers
ContainingFile(frame) == frame.sourceFile

\* ----------------------------------------------------------------- actions
\* every action is one step of the call and leaves its arguments alone
Step ==
  /\ steps' = steps + 1
  /\ UNCHANGED <<files, dontFollow, program, previous>>
  /\ UNCHANGED nodeVars
  /\ UNCHANGED libraryVars

\* throw: the call unwinds and returns nothing
Thrown ==
  /\ phase' = "thrown"
  /\ stack' = <<>>
  /\ UNCHANGED <<sourceFiles, acc, result>>

\* the caller goes on with its next node
Continue(caller) ==
  /\ stack' = Append(Below, caller)
  /\ UNCHANGED <<mergedDontFollow, docs, phase, sourceFiles, acc, result,
                 classified, loaded, followed>>

\* loadReferencedFile(file), called from the activation on top of the stack
\* at node `at`; `caller` is that activation, advanced past the node
loadReferencedFile(file, at, caller) ==
  LET f == PathResolve(file) IN
  IF DontFollowHas(mergedDontFollow, f)
  THEN Continue(caller)
  ELSE /\ mergedDontFollow' = DontFollowAdd(mergedDontFollow, f)
       /\ loaded' = Append(loaded, f)
       /\ IF f \notin FileSystem
          THEN \* readFileSync(file) throws
               /\ Thrown
               /\ UNCHANGED <<docs, classified, followed>>
          ELSE /\ \E d \in DocChoices(f) : docs' = [docs EXCEPT ![f] = d]
               /\ stack' = Append(Append(Below, caller),
                                  Frame(f, Len(classified) + 1))
               /\ classified' = Append(classified, f)
               /\ followed' = Append(followed,
                    [from |-> caller.call, at |-> at,
                     to |-> Len(classified) + 1])
               /\ UNCHANGED <<phase, sourceFiles, acc, result>>

\* visitModuleSpecifier(node) of an import or export declaration
visitModuleSpecifier(node, at, caller) ==
  IF ~node.moduleSpecifier.present
  THEN /\ Continue(caller)
       /\ UNCHANGED resolveCalls
  ELSE IF ~IsStringLiteral(node.moduleSpecifier)
  THEN /\ Thrown
       /\ UNCHANGED <<mergedDontFollow, docs, classified, loaded,
                      resolveCalls, followed>>
  ELSE LET fileReference == node.moduleSpecifier.text
           file == ResolveModule(fileReference, ContainingFile(Top))
       IN /\ resolveCalls' =
               Append(resolveCalls, <<fileReference, ContainingFile(Top)>>)
          /\ IF IsResolved(file)
             THEN loadReferencedFile(file, at, caller)
             ELSE Continue(caller)

\* getExternalSymbols(program, files, dontFollow, ...) up to the reduce
GetExternalSymbols ==
  /\ phase = "idle"
  /\ phase' = "running"
  /\ sourceFiles' = EntrySourceFiles(files)
  /\ mergedDontFollow' = MergedDontFollow(files, dontFollow)
  /\ acc' = <<>>
  /\ UNCHANGED <<docs, stack, result, classified, loaded, resolveCalls,
                 followed>>
  /\ Step

\* one iteration of sourceFiles.reduce: findSymbolNames(program, file, ...)
FindSymbolNames ==
  /\ phase = "running"
  /\ stack = <<>>
  /\ sourceFiles # <<>>
  /\ LET f == PathResolve(Head(sourceFiles)) IN
       /\ \E d \in DocChoices(f) : docs' = [docs EXCEPT ![f] = d]
       /\ stack' = <<Frame(f, Len(classified) + 1)>>
       /\ classified' = Append(classified, f)
  /\ UNCHANGED <<phase, sourceFiles, mergedDontFollow, acc, result, loaded,
                 resolveCalls, followed>>
  /\ Step

\* visitSourceFile: the next entry of node.referencedFiles
VisitSourceFile ==
  /\ phase = "running"
  /\ stack # <<>>
  /\ LET doc == docs[Top.sourceFile] IN
       /\ Top.ref <= Len(doc.referencedFiles)
       /\ loadReferencedFile(
            ResolveTripleslashReference(doc.referencedFiles[Top.ref],
                                        ContainingFile(Top)),
            0, [Top EXCEPT !.ref = Top.ref + 1])
  /\ UNCHANGED resolveCalls
  /\ Step

\* visitNode on the next statement of the document (ts.forEachChild)
VisitNode ==
  /\ phase = "running"
  /\ stack # <<>>
  /\ LET doc == docs[Top.sourceFile]
         node == doc.statements[Top.pc]
         caller == [Top EXCEPT !.pc = Top.pc + 1]
     IN /\ Top.ref > Len(doc.referencedFiles)
        /\ Top.pc <= Len(doc.statements)
        /\ CASE IsModuleSpecifierNode(node) ->
                  visitModuleSpecifier(node, Top.pc, caller)
             [] node.kind = "VariableStatement" ->
                  /\ Continue([caller EXCEPT !.symbols =
                       PushAll(@, visitVariableStatement(node, Top.pc, Top))])
                  /\ UNCHANGED resolveCalls
             [] OTHER ->
                  /\ Continue(caller)
                  /\ UNCHANGED resolveCalls
  /\ Step

\* findSymbolNames returns its symbols: into the caller's list
\* (symbols.push(...findSymbolNames(...))) or into the reduce accumulator
Return ==
  /\ phase = "running"
  /\ stack # <<>>
  /\ LET doc == docs[Top.sourceFile] IN
       /\ Top.ref > Len(doc.referencedFiles)
       /\ Top.pc > Len(doc.statements)
  /\ IF Len(stack) > 1
     THEN /\ stack' = Append(SubSeq(stack, 1, Len(stack) - 2),
                 [stack[Len(stack) - 1] EXCEPT
                    !.symbols = PushAll(@, Top.symbols)])
          /\ UNCHANGED <<sourceFiles, acc>>
     ELSE /\ stack' = <<>>
          /\ acc' = PushAll(acc, Top.symbols)
          /\ sourceFiles' = Tail(sourceFiles)
  /\ UNCHANGED <<docs, phase, mergedDontFollow, result, classified, loaded,
                 resolveCalls, followed>>
  /\ Step

\* the reduce is over: getExternalSymbols returns the accumulated list
ReturnSymbols ==
  /\ phase = "running"
  /\ stack = <<>>
  /\ sourceFiles = <<>>
  /\ phase' = "returned"
  /\ result' = acc
  /\ UNCHANGED <<docs, sourceFiles, mergedDontFollow, stack, acc, classified,
                 loaded, resolveCalls, followed>>
  /\ Step

\* ------------------------------------------------------------- the system
\* no call into library.ts is under way
NoRequest == <<>>
NoLibrary == <<>>
NotConverted == [identifier |-> <<>>, typesModule |-> <<>>, done |-> {}]
NoSearch == <<>>

NoLibraryCall ==
  /\ request = NoRequest
  /\ library = NoLibrary
  /\ converted = NotConverted
  /\ searchPath = NoSearch
  /\ searching = NoSearch
  /\ probed = <<>>
  /\ globs = <<>>

EntryLists ==
  {fs \in SeqsUpTo(FileSystem, MaxEntries) : fs # <<>>}

\* the caller's seed: an absolute path, and one relative to the working directory
SeedPaths == {FileA, <<"b">>}

SeedSets == {{}} \cup {{p} : p \in SeedPaths}

Programs == {FileSystem, FileSystem \ {FileB}}

Init ==
  /\ files \in EntryLists
  /\ dontFollow \in SeedSets
  /\ program \in Programs
  /\ docs = [f \in FileSystem |-> NoDoc]
  /\ phase = "idle"
  /\ sourceFiles = <<>>
  /\ mergedDontFollow = {}
  /\ stack = <<>>
  /\ acc = <<>>
  /\ result = <<>>
  /\ classified = <<>>
  /\ loaded = <<>>
  /\ resolveCalls = <<>>
  /\ followed = <<>>
  /\ steps = 0
  /\ tree = NoTree
  /\ pending = <<>>
  /\ emitted = <<>>
  /\ warnings = <<>>
  /\ checkerCalls = <<>>
  /\ emittedLightweight = <<>>
  /\ previous = <<>>
  /\ NoLibraryCall

Next ==
  \/ GetExternalSymbols
  \/ FindSymbolNames
  \/ VisitSourceFile
  \/ VisitNode
  \/ Return
  \/ ReturnSymbols

Spec == Init /\ [][Next]_vars

\* ------------------------------------------------------------ a second call
\* the caller calls getExternalSymbols again with the same arguments, after
\* the first call has returned or thrown; the documents are the same, and
\* the Set the first call built is whatever that call left behind
CallAgain ==
  /\ phase \in {"returned", "thrown"}
  /\ previous = <<>>
  /\ previous' = <<[phase |-> phase, result |-> result,
                    classified |-> classified, loaded |-> loaded,
                    dontFollow |-> dontFollow]>>
  /\ phase' = "idle"
  /\ sourceFiles' = <<>>
  /\ stack' = <<>>
  /\ acc' = <<>>
  /\ result' = <<>>
  /\ classified' = <<>>
  /\ loaded' = <<>>
  /\ resolveCalls' = <<>>
  /\ followed' = <<>>
  /\ steps' = 0
  /\ UNCHANGED <<files, dontFollow, program, docs, mergedDontFollow>>
  /\ UNCHANGED nodeVars
  /\ UNCHANGED libraryVars

\* one entry file, so that the two calls stay within reach of the checker
InitTwice ==
  /\ Init
  /\ Len(files) = 1

NextTwice ==
  \/ Next
  \/ CallAgain

SpecTwice == InitTwice /\ [][NextTwice]_vars

\* ==================================================== node classification
\* findSymbolNames on one source file: visitNode walks the nodes in
\* pre-order (ts.forEachChild) and classifies each by its kind.

\* ------------------------------------------------------------------ types
\* what checker.getTypeAtLocation answers for a constraint
TypeOfKind(kind, value, aliasTypeArguments, types) ==
  [kind |-> kind, value |-> value, aliasTypeArguments |-> aliasTypeArguments,
   types |-> types]
StringLiteralType(value) == TypeOfKind("StringLiteral", value, <<>>, <<>>)
NumberLiteralType(value) == TypeOfKind("NumberLiteral", value, <<>>, <<>>)
TypeParameter(name) == TypeOfKind("TypeParameter", name, <<>>, <<>>)
ObjectType(aliasTypeArguments) ==
  TypeOfKind("Object", "", aliasTypeArguments, <<>>)
UnionType(types) == TypeOfKind("Union", "", <<>>, types)

\* node.typeParameter.constraint of a mapped type: missing, a keyof type
\* operator, or a type node that the checker evaluates (or throws on)
NoConstraint ==
  [form |-> "absent", throws |-> FALSE, type |-> ObjectType(<<>>)]
KeyOfConstraint ==
  [form |-> "keyof", throws |-> FALSE, type |-> ObjectType(<<>>)]
ThrowingConstraint ==
  [form |-> "type", throws |-> TRUE, type |-> ObjectType(<<>>)]
Constraint(type) == [form |-> "type", throws |-> FALSE, type |-> type]

\* ------------------------------------------------------------------ nodes
NamespaceFlag == "Namespace"
NestedNamespaceFlag == "NestedNamespace"

\* a node of the tree: `declare` is the DeclareKeyword among its modifiers,
\* `names` the names of the declarators of a variable statement
Node(kind, name, declare, flags, children) ==
  [kind |-> kind, name |-> name, names |-> <<>>, declare |-> declare,
   flags |-> flags, constraint |-> NoConstraint, children |-> children]

Member(kind, name, declare) == Node(kind, name, declare, {}, <<>>)

VariableStatementNode(declare, names, children) ==
  [Node("VariableStatement", NoIdentifier, declare, {}, children)
     EXCEPT !.names = names]

MappedTypeNode(constraint, children) ==
  [Node("MappedType", NoIdentifier, FALSE, {}, children)
     EXCEPT !.constraint = constraint]

TypeAliasDeclaration(name, type) ==
  Node("TypeAliasDeclaration", Identifier(name), FALSE, {}, <<type>>)

SourceFileNode(statements) ==
  Node("SourceFile", NoIdentifier, FALSE, {}, statements)

\* node.type of a type alias declaration
TypeOfAlias(node) == node.children[Len(node.children)]

\* ------------------------------------------------- the documents' nodes
\* number of top-level statements of the source file
MaxStatements == 2

PropertySignature(name, declare) == Member("PropertySignature", name, declare)
MethodSignature(name, declare) == Member("MethodSignature", name, declare)
TypeLiteral(members) == Node("TypeLiteral", NoIdentifier, FALSE, {}, members)
ModuleBlock(statements) ==
  Node("ModuleBlock", NoIdentifier, FALSE, {}, statements)
ModuleDeclaration(name, declare, flags, body) ==
  Node("ModuleDeclaration", name, declare, flags, <<body>>)

\* const x, y / declare const x, y / const {..}, y / const x = { prop: 1 }
VariableStatements ==
  {VariableStatementNode(d, ns, <<>>) :
     d \in BOOLEAN,
     ns \in {<<Identifier("x")>>, <<Identifier("x"), Identifier("y")>>}}
  \cup {VariableStatementNode(TRUE, <<NoIdentifier, Identifier("y")>>, <<>>),
        VariableStatementNode(FALSE, <<Identifier("x")>>,
          <<Node("ObjectLiteralExpression", NoIdentifier, FALSE, {},
                 <<Member("PropertyAssignment", Identifier("prop"), FALSE)>>)>>)}

\* function Foo / class Foo / enum Foo, declared or not, with their members
NamedDeclarations ==
  {Node(k, Identifier("Foo"), d, {}, <<>>) :
     k \in {"FunctionDeclaration", "ClassDeclaration", "EnumDeclaration"},
     d \in BOOLEAN}
  \cup {Node("FunctionDeclaration", NoIdentifier, FALSE, {}, <<>>),
        Node("ClassDeclaration", Identifier("Foo"), TRUE, {},
             <<Member("PropertyDeclaration", Identifier("prop"), FALSE),
               Member("MethodDeclaration", Identifier("method"), FALSE)>>),
        Node("ClassDeclaration", Identifier("Foo"), FALSE, {},
             <<Member("PropertyDeclaration", Identifier("prop"), TRUE)>>),
        Node("EnumDeclaration", Identifier("Foo"), TRUE, {},
             <<Member("EnumMember", Identifier("prop"), FALSE),
               Member("EnumMember", Identifier("method"), FALSE)>>)}

\* interface Foo { prop; method() } and type Foo = { prop; method() }
InterfacesAndTypeLiterals ==
  {Node("InterfaceDeclaration", Identifier("Foo"), FALSE, {}, ms) :
     ms \in {<<PropertySignature(Identifier("prop"), FALSE),
               MethodSignature(Identifier("method"), FALSE)>>,
             <<MethodSignature(Identifier("method"), FALSE),
               PropertySignature(Identifier("prop"), FALSE)>>,
             <<PropertySignature(Identifier("prop"), TRUE)>>,
             <<PropertySignature(NoIdentifier, FALSE)>>}}
  \cup {Node("InterfaceDeclaration", Identifier("Foo"), TRUE, {},
             <<PropertySignature(Identifier("prop"), FALSE)>>),
        TypeAliasDeclaration("Foo",
          TypeLiteral(<<PropertySignature(Identifier("prop"), FALSE),
                        MethodSignature(Identifier("method"), FALSE)>>))}

\* namespaces and modules as the parser builds them: the segments after
\* the first of a dotted name are nodes of their own, flagged
\* NestedNamespace and without modifiers; nodes under `declare` are flagged
\* Ambient; only the `namespace` keyword sets the Namespace flag
ModuleDeclarations ==
  {ModuleDeclaration(Identifier("Parent"), TRUE, {NamespaceFlag, "Ambient"},
     ModuleDeclaration(Identifier("Nested"), FALSE,
       {NamespaceFlag, NestedNamespaceFlag, "Ambient"},
       ModuleBlock(<<ModuleDeclaration(Identifier("Child"), FALSE,
                       {NamespaceFlag, "Ambient"}, ModuleBlock(<<>>))>>))),
   ModuleDeclaration(Identifier("Parent"), FALSE, {NamespaceFlag},
     ModuleDeclaration(Identifier("Nested"), FALSE,
       {NamespaceFlag, NestedNamespaceFlag}, ModuleBlock(<<>>))),
   ModuleDeclaration(Identifier("Parent"), TRUE, {NamespaceFlag, "Ambient"},
     ModuleBlock(<<>>)),
   ModuleDeclaration(Identifier("Parent"), FALSE, {NamespaceFlag},
     ModuleBlock(<<>>)),
   ModuleDeclaration(Identifier("Module"), TRUE, {"Ambient"},
     ModuleBlock(<<>>)),
   ModuleDeclaration(Identifier("Module"), TRUE, {"Ambient"},
     ModuleBlock(<<VariableStatementNode(FALSE, <<Identifier("x")>>, <<>>)>>)),
   ModuleDeclaration(NoIdentifier, TRUE, {"Ambient"}, ModuleBlock(<<>>))}

\* the constraints of the mapped types: [K in <constraint>]
Constraints ==
  {NoConstraint, KeyOfConstraint, ThrowingConstraint}
  \cup {Constraint(t) :
          t \in {UnionType(<<StringLiteralType("prop1"),
                             StringLiteralType("prop2")>>),
                 UnionType(<<StringLiteralType("prop2"),
                             StringLiteralType("prop1")>>),
                 StringLiteralType("prop1"),
                 NumberLiteralType("1"),
                 UnionType(<<StringLiteralType("prop1"), NumberLiteralType("1"),
                             ObjectType(<<>>), StringLiteralType("prop2")>>),
                 TypeParameter("T"),
                 UnionType(<<TypeParameter("T"), StringLiteralType("prop1"),
                             TypeParameter("U"), StringLiteralType("prop2")>>),
                 ObjectType(<<StringLiteralType("prop1")>>),
                 UnionType(<<ObjectType(<<TypeParameter("T"),
                                          StringLiteralType("prop1"),
                                          TypeParameter("U")>>),
                             StringLiteralType("prop2")>>)}}

\* type Mapped = { [K in <constraint>]: <template> }
MappedTypeAliases ==
  {TypeAliasDeclaration("Mapped", MappedTypeNode(c, <<>>)) : c \in Constraints}
  \cup {TypeAliasDeclaration("Mapped",
          MappedTypeNode(c, <<TypeLiteral(
             <<PropertySignature(Identifier("prop"), FALSE)>>)>>)) :
          c \in {ThrowingConstraint, KeyOfConstraint,
                 Constraint(StringLiteralType("prop1"))}}

Statements ==
  VariableStatements \cup NamedDeclarations \cup InterfacesAndTypeLiterals
    \cup ModuleDeclarations \cup MappedTypeAliases

SourceFiles == {SourceFileNode(ss) : ss \in SeqsUpTo(Statements, MaxStatements)}

\* --------------------------------------------------------- classification
\* what visiting one node does: the symbols pushed, the warnings logged and
\* the constraints handed to the checker
Effect(syms, warns, calls) ==
  [symbols |-> syms, warnings |-> warns, checkerCalls |-> calls,
   thrown |-> FALSE]
NoEffect == Effect(<<>>, <<>>, <<>>)

\* an error that leaves the visit
ThrowEffect(calls) == [Effect(<<>>, <<>>, calls) EXCEPT !.thrown = TRUE]

\* as CatchesCheckerError, without the try statement
CatchesNothing == FALSE

\* try { checker.getTypeAtLocation(constraint) } catch { ... }
CatchesCheckerError == TRUE

\* the activation of findSymbolNames that classifies the tree
TreeFrame == Frame(FileA, 1)

\* visitName(node, type)
visitName(node, type, at) ==
  VisitNames(<<node.name>>, type, at, TreeFrame.sourceFile, TreeFrame.call)

\* as visitNamedDeclaration, taking no note of the declare modifier
visitNamedDeclarationAsProperty(node, at) == visitName(node, "PROPERTY", at)

\* visitNamedDeclaration(node)
visitNamedDeclaration(node, at) ==
  visitName(node, IF isDeclared(node) THEN "DECLARATION" ELSE "PROPERTY", at)

\* as HasFlag, finding every flag set
HasAnyFlag(flags, flag) == TRUE

\* node.flags & flag and node.flags ^ flag, as truth values
HasFlag(flags, flag) == flags \cap {flag} # {}
XorFlag(flags, flag) == (flags \ {flag}) \cup ({flag} \ flags) # {}

visitModuleDeclaration(node, at) ==
  IF ~HasFlag(node.flags, NamespaceFlag) THEN <<>>
  ELSE visitName(node,
                 IF isDeclared(node) /\ XorFlag(node.flags, NestedNamespaceFlag)
                 THEN "DECLARATION" ELSE "PROPERTY",
                 at)

\* as ConstraintMemberTypes, reading the members of a union only
ConstraintTypesOfUnion(type) == type.types

\* constraintType.isUnion() ? constraintType.types : [constraintType]
ConstraintMemberTypes(type) ==
  IF type.kind = "Union" THEN type.types ELSE <<type>>

IsTypeParameter(type) == type.kind = "TypeParameter"

\* as TypeParametersOf, looking at the member itself only
TypeParameterItself(memberType) ==
  IF IsTypeParameter(memberType) THEN <<memberType>> ELSE <<>>

\* as TypeParametersOf, taking every alias type argument for a parameter
AliasTypeArgumentsOf(memberType) ==
  IF IsTypeParameter(memberType) THEN <<memberType>>
  ELSE memberType.aliasTypeArguments

\* the type parameters that make a member of the union unresolved
TypeParametersOf(memberType) ==
  IF IsTypeParameter(memberType) THEN <<memberType>>
  ELSE SelectSeq(memberType.aliasTypeArguments, IsTypeParameter)

\* visitStringLiteralType(type, node)
visitStringLiteralType(type, at) ==
  Symbol("PROPERTY", type.value, at, TreeFrame.sourceFile, TreeFrame.call)

\* typeParameters.map(checker.typeToString).join(', ')
RECURSIVE JoinTypeParameters(_)
JoinTypeParameters(types) ==
  IF types = <<>> THEN ""
  ELSE IF Len(types) = 1 THEN Head(types).value
  ELSE Head(types).value \o ", " \o JoinTypeParameters(Tail(types))

warnUnresolvedConstraintType(at) ==
  [message |-> "could not be resolved, and was ignored", name |-> "",
   at |-> at, parameters |-> ""]

warnUnresolvedTypeParameters(typeAlias, at, typeParameters) ==
  [message |-> "contains unresolved type parameter(s)",
   name |-> typeAlias.name.text, at |-> at,
   parameters |-> JoinTypeParameters(typeParameters)]

\* the loop over the members of the constraint: the unresolved type
\* parameters and the string literals found, in the members' order
RECURSIVE UnresolvedTypes(_)
UnresolvedTypes(memberTypes) ==
  IF memberTypes = <<>> THEN <<>>
  ELSE TypeParametersOf(Head(memberTypes)) \o UnresolvedTypes(Tail(memberTypes))

RECURSIVE StringLiteralSymbols(_, _)
StringLiteralSymbols(memberTypes, at) ==
  IF memberTypes = <<>> THEN <<>>
  ELSE (IF TypeParametersOf(Head(memberTypes)) = <<>>
           /\ Head(memberTypes).kind = "StringLiteral"
        THEN <<visitStringLiteralType(Head(memberTypes), at)>>
        ELSE <<>>)
         \o StringLiteralSymbols(Tail(memberTypes), at)

\* as IsSkippedConstraint, without the test for keyof
IsMissingConstraint(constraint) == constraint.form = "absent"

\* constraint == null, or a keyof type operator
IsSkippedConstraint(constraint) == constraint.form \in {"absent", "keyof"}

\* visitMappedTypeNode(node), node being the type of the alias `parent`
\* that stands at `parentAt`; `at` is the place of the mapped type
visitMappedTypeNode(node, at, parent, parentAt) ==
  LET constraint == node.constraint IN
  IF IsSkippedConstraint(constraint) THEN NoEffect
  ELSE IF constraint.throws
  THEN (IF CatchesCheckerError
        THEN Effect(<<>>, <<warnUnresolvedConstraintType(at)>>, <<at>>)
        ELSE ThrowEffect(<<at>>))
  ELSE LET constraintMemberTypes == ConstraintMemberTypes(constraint.type)
           unresolvedTypes == UnresolvedTypes(constraintMemberTypes)
       IN Effect(StringLiteralSymbols(constraintMemberTypes, at),
                 IF Len(unresolvedTypes) > 0
                 THEN <<warnUnresolvedTypeParameters(parent, parentAt,
                                                     unresolvedTypes)>>
                 ELSE <<>>,
                 <<at>>)

visitTypeAliasDeclaration(node, at) ==
  IF TypeOfAlias(node).kind = "MappedType"
  THEN visitMappedTypeNode(TypeOfAlias(node), Append(at, Len(node.children)),
                           node, at)
  ELSE NoEffect

NamedDeclarationKinds ==
  {"EnumMember", "MethodSignature", "MethodDeclaration", "PropertySignature",
   "PropertyDeclaration", "PropertyAssignment", "EnumDeclaration",
   "FunctionDeclaration", "ClassDeclaration"}

\* the switch of visitNode; the reference nodes (referencedFiles of the
\* source file, import and export declarations) are followed by the
\* traversal of the graph above and occur in no tree here
visitNode(node, at) ==
  CASE node.kind = "ModuleDeclaration" ->
         Effect(visitModuleDeclaration(node, at), <<>>, <<>>)
    [] node.kind = "VariableStatement" ->
         Effect(visitVariableStatement(node, at, TreeFrame), <<>>, <<>>)
    [] node.kind \in NamedDeclarationKinds ->
         Effect(visitNamedDeclaration(node, at), <<>>, <<>>)
    [] node.kind = "TypeAliasDeclaration" ->
         visitTypeAliasDeclaration(node, at)
    [] OTHER -> NoEffect

\* ts.forEachChild(node, visitNode): the children, each with its place
ForEachChild(node, at) ==
  [i \in 1..Len(node.children) |->
     [node |-> node.children[i], at |-> Append(at, i)]]

\* visitNode(node) up to the visits of its children
VisitTreeNode ==
  /\ phase = "classifying"
  /\ pending # <<>>
  /\ LET node == Head(pending).node
         at == Head(pending).at
         effect == visitNode(node, at)
     IN /\ emitted' = emitted \o effect.symbols
        /\ warnings' = warnings \o effect.warnings
        /\ checkerCalls' = checkerCalls \o effect.checkerCalls
        /\ IF effect.thrown
           THEN phase' = "thrown" /\ pending' = <<>>
           ELSE /\ phase' = phase
                /\ pending' = ForEachChild(node, at) \o Tail(pending)
  /\ UNCHANGED <<tree, previous, emittedLightweight>>
  /\ UNCHANGED libraryVars
  /\ UNCHANGED <<files, dontFollow, program, docs, sourceFiles,
                 mergedDontFollow, stack, acc, result, classified, loaded,
                 resolveCalls, followed, steps>>

\* findSymbolNames(program, sourceFile, ...) about to call visitNode(sourceFile)
InitClassify ==
  /\ tree \in SourceFiles
  /\ pending = <<[node |-> tree, at |-> <<>>]>>
  /\ emitted = <<>>
  /\ warnings = <<>>
  /\ checkerCalls = <<>>
  /\ emittedLightweight = <<>>
  /\ previous = <<>>
  /\ NoLibraryCall
  /\ files = <<FileA>>
  /\ dontFollow = {}
  /\ program = FileSystem
  /\ docs = [f \in FileSystem |-> NoDoc]
  /\ phase = "classifying"
  /\ sourceFiles = <<>>
  /\ mergedDontFollow = {FileA}
  /\ stack = <<>>
  /\ acc = <<>>
  /\ result = <<>>
  /\ classified = <<FileA>>
  /\ loaded = <<>>
  /\ resolveCalls = <<>>
  /\ followed = <<>>
  /\ steps = 0

NextClassify == VisitTreeNode

SpecClassify == InitClassify /\ [][NextClassify]_vars

\* ------------------------------------------- the variant without a checker
\* getExternalSymbols(files, dontFollow, fileSystem, resolveFrom): the entry
\* documents are read from the file system, and only the ignore filter
\* applies to them
EntrySourceFilesLightweight(fs) ==
  SelectSeq2(fs, {f \in Range(fs) : isNotIgnored(f)})

\* the node kinds its visitNode hands to visitNamedDeclaration
LightweightNamedDeclarationKinds ==
  {"EnumMember", "MethodSignature", "MethodDeclaration", "PropertySignature",
   "PropertyDeclaration", "PropertyAssignment", "EnumDeclaration",
   "FunctionDeclaration", "ClassDeclaration"}

\* the switch of its visitNode: a type alias is left to ts.forEachChild
visitNodeLightweight(node, at) ==
  CASE node.kind = "ModuleDeclaration" ->
         Effect(visitModuleDeclaration(node, at), <<>>, <<>>)
    [] node.kind = "VariableStatement" ->
         Effect(visitVariableStatement(node, at, TreeFrame), <<>>, <<>>)
    [] node.kind \in LightweightNamedDeclarationKinds ->
         Effect(visitNamedDeclaration(node, at), <<>>, <<>>)
    [] OTHER -> NoEffect

\* both variants are called with the one entry file; each classifies the
\* document when its getExternalSymbols keeps the entry
ClassifiedByChecker == Range(EntrySourceFiles(files)) # {}
ClassifiedByLightweight == Range(EntrySourceFilesLightweight(files)) # {}

\* visitNode(node) of both variants on the same node of the same document
VisitTreeNodeInBoth ==
  /\ phase = "classifying"
  /\ pending # <<>>
  /\ LET node == Head(pending).node
         at == Head(pending).at
         effect == IF ClassifiedByChecker THEN visitNode(node, at)
                   ELSE NoEffect
         lightweight == IF ClassifiedByLightweight
                        THEN visitNodeLightweight(node, at)
                        ELSE NoEffect
     IN /\ emitted' = emitted \o effect.symbols
        /\ warnings' = warnings \o effect.warnings
        /\ checkerCalls' = checkerCalls \o effect.checkerCalls
        /\ emittedLightweight' = emittedLightweight \o lightweight.symbols
        /\ IF effect.thrown
           THEN phase' = "thrown" /\ pending' = <<>>
           ELSE /\ phase' = phase
                /\ pending' = ForEachChild(node, at) \o Tail(pending)
  /\ UNCHANGED <<tree, previous>>
  /\ UNCHANGED libraryVars
  /\ UNCHANGED <<files, dontFollow, program, docs, sourceFiles,
                 mergedDontFollow, stack, acc, result, classified, loaded,
                 resolveCalls, followed, steps>>

\* the statements of the documents handed to both variants: interfaces and
\* type literals, mapped types with a template or keyed by a union, and
\* the declarations and variable statements that have members
VariantStatements ==
  InterfacesAndTypeLiterals
    \cup {alias \in MappedTypeAliases :
            \/ TypeOfAlias(alias).children # <<>>
            \/ TypeOfAlias(alias).constraint.type.kind = "Union"}
    \cup {node \in NamedDeclarations \cup VariableStatements :
            node.children # <<>>}

\* the compilation unit of the variant with a checker holds the entry file,
\* or does not
InitVariants ==
  /\ tree \in {SourceFileNode(ss) :
                 ss \in SeqsUpTo(VariantStatements, MaxStatements)}
  /\ pending = <<[node |-> tree, at |-> <<>>]>>
  /\ emitted = <<>>
  /\ warnings = <<>>
  /\ checkerCalls = <<>>
  /\ emittedLightweight = <<>>
  /\ previous = <<>>
  /\ NoLibraryCall
  /\ files = <<FileA>>
  /\ dontFollow = {}
  /\ program \in {FileSystem, FileSystem \ {FileA}}
  /\ docs = [f \in FileSystem |-> NoDoc]
  /\ phase = "classifying"
  /\ sourceFiles = <<>>
  /\ mergedDontFollow = {FileA}
  /\ stack = <<>>
  /\ acc = <<>>
  /\ result = <<>>
  /\ classified = <<FileA>>
  /\ loaded = <<>>
  /\ resolveCalls = <<>>
  /\ followed = <<>>
  /\ steps = 0

NextVariants == VisitTreeNodeInBoth

SpecVariants == InitVariants /\ [][NextVariants]_vars

\* ============================================================ library.ts
\* A string is the sequence of its characters.

\* ---------------------------------------------------------------- bounds
\* the number of characters of a module name after its prefix
MaxNameLen == 3
\* the number of directories between the root and the directory the search
\* for a package starts from
MaxDepth == 2

\* ---------------------------------------------------------------- strings
\* null, which is no string
Null == <<"null">>

AtTypesSlash == <<"@", "t", "y", "p", "e", "s", "/">>

\* s.indexOf(c), counted from 0; -1 when c is not in s
IndexOf(s, c) ==
  IF \E i \in 1..Len(s) : s[i] = c
  THEN (CHOOSE i \in 1..Len(s) :
          s[i] = c /\ \A j \in 1..(i - 1) : s[j] # c) - 1
  ELSE -1

\* s.startsWith(prefix)
StartsWith(s, prefix) ==
  /\ Len(s) >= Len(prefix)
  /\ SubSeq(s, 1, Len(prefix)) = prefix

\* s.replace(/c/g, to)
RECURSIVE ReplaceAll(_, _, _)
ReplaceAll(s, c, to) ==
  IF s = <<>> THEN <<>>
  ELSE (IF Head(s) = c THEN to ELSE <<Head(s)>>) \o ReplaceAll(Tail(s), c, to)

\* as ReplaceFirst, replacing every occurrence
ReplaceEvery(s, c, to) == ReplaceAll(s, c, to)

\* s.replace(c, to) with a string pattern: the first occurrence only
RECURSIVE ReplaceFirst(_, _, _)
ReplaceFirst(s, c, to) ==
  IF s = <<>> THEN <<>>
  ELSE IF Head(s) = c THEN to \o Tail(s)
  ELSE <<Head(s)>> \o ReplaceFirst(Tail(s), c, to)

\* s.substr(1)
Substr1(s) == IF s = <<>> THEN <<>> ELSE Tail(s)

\* s.replace(/^@/, to)
ReplaceLeadingAt(s, to) ==
  IF StartsWith(s, <<"@">>) THEN to \o Tail(s) ELSE s

\* moduleName.indexOf('@') === 0 && moduleName.indexOf('/') !== -1
IsScopedModule(name) ==
  IndexOf(name, "@") = 0 /\ IndexOf(name, "/") # -1

moduleNameToIdentifier(name) ==
  LET id == ReplaceAll(name, "-", <<"_">>)
  IN IF IsScopedModule(name)
     THEN ReplaceFirst(Substr1(id), "/", <<"_", "_">>)
     ELSE id

\* as IsTypesModule, taking every scoped name for a types package
IsAnyScope(name) == StartsWith(name, <<"@">>)

\* moduleName.startsWith('@types/')
IsTypesModule(name) == StartsWith(name, AtTypesSlash)

moduleNameToTypesModule(name) ==
  IF StartsWith(name, <<"@">>)
  THEN IF IsTypesModule(name) THEN Null
       ELSE ReplaceLeadingAt(ReplaceFirst(name, "/", <<"_", "_">>),
                             AtTypesSlash)
  ELSE AtTypesSlash \o name

\* ------------------------------------------------- the name conversions
NameCharacters == {"a", "-", "/", "@"}

NamePrefixes ==
  {<<>>, AtTypesSlash, SubSeq(AtTypesSlash, 1, 6), <<"@", "b", "/">>}

\* the module names the conversions are applied to
NameStrings ==
  {prefix \o rest : prefix \in NamePrefixes,
                    rest \in SeqsUpTo(NameCharacters, MaxNameLen)}

NameRequest(name) ==
  [moduleName |-> name, from |-> <<>>, fileSystem |-> {},
   declarationGlobs |-> Null, identifier |-> Null, externImports |-> Null]

ModuleNameToIdentifier ==
  /\ phase = "converting"
  /\ "identifier" \notin converted.done
  /\ converted' = [converted EXCEPT
                     !.identifier = moduleNameToIdentifier(request.moduleName),
                     !.done = @ \cup {"identifier"}]
  /\ UNCHANGED <<request, library, searchPath, searching, probed, globs>>
  /\ UNCHANGED <<graphVars, nodeVars, previous>>

ModuleNameToTypesModule ==
  /\ phase = "converting"
  /\ "typesModule" \notin converted.done
  /\ converted' = [converted EXCEPT
                     !.typesModule = moduleNameToTypesModule(request.moduleName),
                     !.done = @ \cup {"typesModule"}]
  /\ UNCHANGED <<request, library, searchPath, searching, probed, globs>>
  /\ UNCHANGED <<graphVars, nodeVars, previous>>

InitNames ==
  /\ request \in {NameRequest(name) : name \in NameStrings}
  /\ library = NoLibrary
  /\ converted = NotConverted
  /\ searchPath = NoSearch
  /\ searching = NoSearch
  /\ probed = <<>>
  /\ globs = <<>>
  /\ phase = "converting"
  /\ files = <<>>
  /\ dontFollow = {}
  /\ program = {}
  /\ docs = [f \in FileSystem |-> NoDoc]
  /\ sourceFiles = <<>>
  /\ mergedDontFollow = {}
  /\ stack = <<>>
  /\ acc = <<>>
  /\ result = <<>>
  /\ classified = <<>>
  /\ loaded = <<>>
  /\ resolveCalls = <<>>
  /\ followed = <<>>
  /\ steps = 0
  /\ tree = NoTree
  /\ pending = <<>>
  /\ emitted = <<>>
  /\ warnings = <<>>
  /\ checkerCalls = <<>>
  /\ emittedLightweight = <<>>
  /\ previous = <<>>

NextNames ==
  \/ ModuleNameToIdentifier
  \/ ModuleNameToTypesModule

SpecNames == InitNames /\ [][NextNames]_vars

\* ------------------------------------------------------------ path calls
\* the characters of a string put together again
RECURSIVE Concat(_)
Concat(chars) ==
  IF chars = <<>> THEN "" ELSE Head(chars) \o Concat(Tail(chars))

\* the segments of a module name between its slashes, as path.join sees
\* them: an empty segment names nothing
RECURSIVE Split(_, _)
Split(chars, segment) ==
  IF chars = <<>>
  THEN (IF segment = <<>> THEN <<>> ELSE <<Concat(segment)>>)
  ELSE IF Head(chars) = "/"
  THEN (IF segment = <<>> THEN <<>> ELSE <<Concat(segment)>>)
         \o Split(Tail(chars), <<>>)
  ELSE Split(Tail(chars), Append(segment, Head(chars)))

\* path.join(base, ...more): joined and normalised, not made absolute
PathJoin(base, more) ==
  IF IsAbsolute(base) THEN NormalizeSegments(Tail(base) \o more, <<"/">>)
  ELSE NormalizeSegments(base \o more, <<>>)

\* while (searchPath): false and the empty string end the loop
False == <<"false">>
IsTruthy(value) == value \notin {False, Null, <<>>}

\* fileSystem.existsSync(path)
ExistsSync(fileSystem, path) == PathResolve(path) \in fileSystem

\* join(searchPath, 'node_modules', moduleName)
ProposedModulePath(path, name) ==
  PathJoin(path, <<"node_modules">> \o Split(name, <<>>))

\* as IsRoot, never stopping short of the parent of the root
IsAboveRoot(path) == FALSE

\* searchPath === resolve('/')
IsRoot(path) == path = PathResolve(<<"/">>)

\* resolve(searchPath, '..')
ParentOf(path) == PathResolve(path \o <<"..">>)

\* join(modulePath, '/**/*.d.ts')
DeclarationGlob(modulePath) == PathJoin(modulePath, <<"**", "*.d.ts">>)

\* what attemptResolve gives back: the package found and its glob, or null
Resolved(modulePath) ==
  [modulePath |-> modulePath, glob |-> DeclarationGlob(modulePath)]
Unresolved == [modulePath |-> Null, glob |-> Null]

\* ------------------------------------------------------ library requests
\* the module names of the libraries: plain, hyphenated, scoped, and a
\* types package
LibraryNames ==
  {<<"a">>, <<"a", "-", "a">>, <<"@", "b", "/", "a">>, AtTypesSlash \o <<"a">>}

\* the directories from the root down to MaxDepth
RECURSIVE DirectoriesTo(_)
DirectoriesTo(depth) ==
  IF depth = 0 THEN {<<"/">>}
  ELSE DirectoriesTo(depth - 1)
         \cup {Append(d, "p") : d \in DirectoriesTo(depth - 1)}

\* `from`: an absolute directory, or one relative to the working directory
Froms == DirectoriesTo(MaxDepth) \cup {<<"p">>}

\* the directories a search from `from` can probe for the names of a library
PackagePaths(name, from) ==
  {d \o <<"node_modules">> \o Split(n, <<>>) :
     d \in {x \in DirectoriesTo(MaxDepth) :
              Len(x) <= Len(PathResolve(from))},
     n \in {name} \cup ({moduleNameToTypesModule(name)} \ {Null})}

\* the caller's additional globs: none given, two, or two around an empty one
CallerGlobs ==
  {Null, <<<<"x", "*.d.ts">>, <<"w", "*.d.ts">>>>,
   <<<<"w", "*.d.ts">>, <<>>, <<"x", "*.d.ts">>>>}

\* the caller's identifier and externImports: both left out, or both given
CallerOverrides ==
  {[identifier |-> Null, externImports |-> Null],
   [identifier |-> <<"i", "d">>, externImports |-> <<"e">>]}

Requests ==
  UNION {{[moduleName |-> name, from |-> from, fileSystem |-> fileSystem,
           declarationGlobs |-> given, identifier |-> over.identifier,
           externImports |-> over.externImports] :
            fileSystem \in SUBSET PackagePaths(name, from),
            given \in CallerGlobs, over \in CallerOverrides} :
           name \in LibraryNames, from \in Froms}

\* ----------------------------------------------- createApplyDefaults(...)
\* every action is one step of the call and leaves its arguments alone
LibraryStep ==
  /\ steps' = steps + 1
  /\ UNCHANGED <<request, converted>>
  /\ UNCHANGED <<files, dontFollow, program, docs, sourceFiles,
                 mergedDontFollow, stack, acc, result, classified, loaded,
                 resolveCalls, followed>>
  /\ UNCHANGED <<nodeVars, previous>>

\* findPackage(from, moduleName, fileSystem) is entered
FindPackage(name) ==
  /\ searching' = name
  /\ searchPath' = request.from

\* attemptResolve(library.moduleName, from, fileSystem)
AttemptResolve ==
  /\ phase = "called"
  /\ searching = NoSearch
  /\ Len(globs) = 0
  /\ FindPackage(request.moduleName)
  /\ UNCHANGED <<phase, library, probed, globs>>
  /\ LibraryStep

\* attemptResolveTypesModule(library.moduleName, from, fileSystem)
AttemptResolveTypesModule ==
  /\ phase = "called"
  /\ searching = NoSearch
  /\ Len(globs) = 1
  /\ LET typedModuleName == moduleNameToTypesModule(request.moduleName) IN
       IF IsTruthy(typedModuleName)
       THEN /\ FindPackage(typedModuleName)
            /\ UNCHANGED globs
       ELSE /\ globs' = Append(globs, Unresolved)
            /\ UNCHANGED <<searching, searchPath>>
  /\ UNCHANGED <<phase, library, probed>>
  /\ LibraryStep

\* while (searchPath): findPackage is running and goes round its loop
InLoop ==
  /\ phase = "called"
  /\ searching # NoSearch
  /\ IsTruthy(searchPath)

\* one turn of the loop of findPackage; a package found is returned to
\* attemptResolve, which returns its glob
FindPackageProbe ==
  /\ InLoop
  /\ LET proposedModulepath == ProposedModulePath(searchPath, searching) IN
       /\ probed' = Append(probed, [moduleName |-> searching,
                                    from |-> searchPath,
                                    path |-> proposedModulepath])
       /\ IF ExistsSync(request.fileSystem, proposedModulepath)
          THEN /\ globs' = Append(globs, Resolved(proposedModulepath))
               /\ searching' = NoSearch
               /\ searchPath' = NoSearch
          ELSE /\ searchPath' = IF IsRoot(searchPath) THEN False
                                ELSE ParentOf(searchPath)
               /\ UNCHANGED <<globs, searching>>
  /\ UNCHANGED <<phase, library>>
  /\ LibraryStep

\* the loop of findPackage is over: null, and attemptResolve returns null
FindPackageNull ==
  /\ phase = "called"
  /\ searching # NoSearch
  /\ ~IsTruthy(searchPath)
  /\ globs' = Append(globs, Unresolved)
  /\ searching' = NoSearch
  /\ searchPath' = NoSearch
  /\ UNCHANGED <<phase, library, probed>>
  /\ LibraryStep

\* .filter((glob) => !!glob)
RECURSIVE FilterTruthy(_)
FilterTruthy(list) ==
  IF list = <<>> THEN <<>>
  ELSE (IF IsTruthy(Head(list)) THEN <<Head(list)>> ELSE <<>>)
         \o FilterTruthy(Tail(list))

\* as OrEmpty, dropping what the caller gave
OrNothing(list) == <<>>

\* declarationGlobs || []
OrEmpty(list) == IF list = Null THEN <<>> ELSE list

\* a field of the defaults, overridden by ...library when the caller set it
Overridden(default, given) == IF given = Null THEN default ELSE given

\* the Library is put together and returned
ApplyDefaults ==
  /\ phase = "called"
  /\ searching = NoSearch
  /\ Len(globs) = 2
  /\ library' =
       [moduleName |-> request.moduleName,
        identifier |-> Overridden(moduleNameToIdentifier(request.moduleName),
                                  request.identifier),
        externImports |-> Overridden(<<>>, request.externImports),
        declarationGlobs |->
          FilterTruthy(<<globs[1].glob, globs[2].glob>>
                         \o OrEmpty(request.declarationGlobs))]
  /\ phase' = "returned"
  /\ UNCHANGED <<searchPath, searching, probed, globs>>
  /\ LibraryStep

InitLibrary ==
  /\ request \in Requests
  /\ library = NoLibrary
  /\ converted = NotConverted
  /\ searchPath = NoSearch
  /\ searching = NoSearch
  /\ probed = <<>>
  /\ globs = <<>>
  /\ phase = "called"
  /\ files = <<>>
  /\ dontFollow = {}
  /\ program = {}
  /\ docs = [f \in FileSystem |-> NoDoc]
  /\ sourceFiles = <<>>
  /\ mergedDontFollow = {}
  /\ stack = <<>>
  /\ acc = <<>>
  /\ result = <<>>
  /\ classified = <<>>
  /\ loaded = <<>>
  /\ resolveCalls = <<>>
  /\ followed = <<>>
  /\ steps = 0
  /\ tree = NoTree
  /\ pending = <<>>
  /\ emitted = <<>>
  /\ warnings = <<>>
  /\ checkerCalls = <<>>
  /\ emittedLightweight = <<>>
  /\ previous = <<>>

NextLibrary ==
  \/ AttemptResolve
  \/ AttemptResolveTypesModule
  \/ FindPackageProbe
  \/ FindPackageNull
  \/ ApplyDefaults

SpecLibrary == InitLibrary /\ [][NextLibrary]_vars

\* ================================================================== claims
Count(s, x) == Cardinality({i \in 1..Len(s) : s[i] = x})

\* the absolute path a caller's path stands for (relative paths are taken
\* from the working directory)
Canonical(p) == IF IsAbsolute(p) THEN p ELSE Cwd \o p

CanonicalEntries == {Canonical(p) : p \in Range(files)}
CanonicalSeed == {Canonical(p) : p \in dontFollow}

\* every symbol collected so far: returned, accumulated or still in a frame
RECURSIVE StackSymbols(_)
StackSymbols(n) ==
  IF n = 0 THEN <<>> ELSE StackSymbols(n - 1) \o stack[n].symbols

CollectedSymbols == Range(result) \cup Range(acc) \cup Range(StackSymbols(Len(stack)))

\* the reference nodes of the document of f that name a file: where they
\* stand (0 for a triple-slash reference) and the canonical path they name
References(f) ==
  {[from |-> f, kind |-> "TripleSlash", at |-> i,
    target |-> PathResolve(
                 ResolveTripleslashReference(docs[f].referencedFiles[i], f))] :
     i \in 1..Len(docs[f].referencedFiles)}
  \cup
  {[from |-> f, kind |-> docs[f].statements[i].kind, at |-> i,
    target |-> PathResolve(
                 ResolveModule(docs[f].statements[i].moduleSpecifier.text, f))] :
     i \in {j \in 1..Len(docs[f].statements) :
              /\ docs[f].statements[j].kind
                   \in {"ImportDeclaration", "ExportDeclaration"}
              /\ docs[f].statements[j].moduleSpecifier.isStringLiteral
              /\ ResolveModule(docs[f].statements[j].moduleSpecifier.text, f)
                   # NoFile}}

\* the reference nodes of all documents classified in this call
ClassifiedReferences ==
  UNION {References(f) : f \in Range(classified) \cap FileSystem}

\* ---------------------------------------------------------------------- C1
\* C1 (as claimed): within one top-level call every canonical file path is
\* classified (passed to findSymbolNames) at most once, whatever the entry
\* list.
C1_ClassifiedAtMostOnce ==
  \A p \in Range(classified) : Count(classified, p) <= 1

\* C1 (amended): a canonical path is loaded and classified through
\* references at most once, and never when it is an entry; an entry is
\* classified once for each of its occurrences in the entry list.  So no path
\* is classified twice unless the entry list names it twice.
C1_ClassifiedOncePerEntryOccurrence ==
  /\ \A p \in Range(loaded) :
       Count(loaded, p) = 1 /\ p \notin CanonicalEntries
  /\ \A p \in Range(classified) :
       Count(classified, p) <=
         (IF p \in CanonicalEntries THEN Count(files, p) ELSE 1)

\* C1 witness: the call has returned, and a path that two reference nodes
\* of the classified documents name was classified exactly once.
C1_Witness ==
  /\ phase = "returned"
  /\ \E p \in Range(loaded) :
       /\ Count(classified, p) = 1
       /\ Cardinality({r \in ClassifiedReferences : r.target = p}) >= 2


\* ---------------------------------------------------------------------- C2
Final == phase \in {"returned", "thrown"}

RECURSIVE SizeOfClassified(_)
SizeOfClassified(n) ==
  IF n = 0 THEN 0
  ELSE LET doc == docs[classified[n]]
       IN 2 + Len(doc.referencedFiles) + Len(doc.statements)
            + SizeOfClassified(n - 1)

\* C2: a top-level traversal terminates.  The activations of findSymbolNames
\* on the stack are of pairwise distinct files, so the recursion is never
\* deeper than the number of distinct canonical paths: a reference back to a
\* visited file (the document itself, an entry, an ancestor) is not followed
\* again.  No more documents are classified than entries plus distinct
\* paths, the number of steps taken is bounded by the size of the documents
\* classified, and the call can always take a step until it has returned or
\* thrown.
C2_TerminatesWithBoundedDepth ==
  /\ [](/\ \A i, j \in 1..Len(stack) :
             stack[i].sourceFile = stack[j].sourceFile => i = j
        /\ Len(stack) <= Cardinality(FileSystem)
        /\ Len(classified) <= Len(files) + Cardinality(FileSystem)
        /\ steps <= 2 + SizeOfClassified(Len(classified)))
  /\ [](~Final => ENABLED Next)

\* C2 witness: the call has returned although two classified documents
\* refer to each other.
C2_Witness ==
  /\ phase = "returned"
  /\ \E r1, r2 \in ClassifiedReferences :
       /\ r1.from # r1.target
       /\ r1.target = r2.from
       /\ r2.target = r1.from


\* ---------------------------------------------------------------------- C3
\* C3 (as claimed): a path in the caller's seed is never classified in the
\* call, even when it is also supplied as an entry file.
C3_SeedNeverClassified ==
  \A p \in CanonicalSeed : p \notin Range(classified)

\* C3 (amended): a path in the caller's seed is never loaded or classified
\* through a reference; it is classified only when it is also supplied as an
\* entry file, and then from the entry list.
C3_SeedClassifiedOnlyAsEntry ==
  \A p \in CanonicalSeed :
    /\ p \notin Range(loaded)
    /\ \A e \in Range(followed) : classified[e.to] # p
    /\ p \in Range(classified) => p \in CanonicalEntries

\* C3 witness: the call has returned, a seeded path that is also an entry
\* was classified, and a classified document refers to it.
C3_Witness ==
  /\ phase = "returned"
  /\ \E p \in CanonicalSeed \cap CanonicalEntries :
       /\ p \in Range(classified)
       /\ \E r \in ClassifiedReferences : r.target = p

\* ---------------------------------------------------------------------- C4
\* C4: a file that is not an entry and whose canonical path is in the
\* caller's seed is skipped when a reference (import, re-export or
\* triple-slash) names it: its document is never read or classified, no
\* collected symbol comes from it, and no reference is resolved from it.
C4_SeededReferenceSkipped ==
  \A p \in CanonicalSeed \ CanonicalEntries :
    /\ p \notin Range(loaded)
    /\ p \notin Range(classified)
    /\ p \in FileSystem => ~docs[p].read
    /\ \A sym \in CollectedSymbols : sym.sourceFile # p
    /\ \A c \in Range(resolveCalls) : c[2] # p

\* C4 witness: the call has returned and one of the classified documents
\* re-exports from a file that exists, is not an entry and is in the seed,
\* which the caller gave as a relative path.
C4_Witness ==
  /\ phase = "returned"
  /\ \E r \in ClassifiedReferences :
       /\ r.target \in (CanonicalSeed \cap FileSystem) \ CanonicalEntries
       /\ r.kind = "ExportDeclaration"
       /\ \E p \in dontFollow : ~IsAbsolute(p)


\* ---------------------------------------------------------------------- C5
\* the activation a was called, directly or not, by the activation b (or is b)
RECURSIVE IsWithin(_, _)
IsWithin(a, b) ==
  \/ a = b
  \/ \E e \in Range(followed) : e.to = a /\ IsWithin(e.from, b)

\* the places of the result that hold the symbols of activation a alone, and
\* of a with everything it pulled in
Own(a) == {i \in 1..Len(result) : result[i].call = a}
Block(a) == {i \in 1..Len(result) : IsWithin(result[i].call, a)}

Contiguous(S) == \A i, j \in S : \A k \in i..j : k \in S
Before(S, T) == \A i \in S, j \in T : i < j

\* the number of names the document of activation a declares
RECURSIVE DeclaredNames(_, _)
DeclaredNames(statements, n) ==
  IF n = 0 THEN 0
  ELSE Len(statements[n].names) + DeclaredNames(statements, n - 1)

RootActivations ==
  {a \in 1..Len(classified) : \A e \in Range(followed) : e.to # a}

\* C5: the returned list is in depth-first pre-order.  The entry files that
\* are classified contribute in the order supplied; every name a classified
\* document declares is there, in document order; the symbols of a followed
\* reference, with everything it pulls in, are one contiguous block that
\* stands after the symbols of the referring document that precede the
\* reference node and before those that follow it; and of two activations
\* neither of which is inside the other, the earlier one's block comes first.
C5_DepthFirstPreOrder ==
  phase = "returned" =>
    /\ \A a \in 1..Len(classified) :
         /\ Cardinality(Own(a)) =
              DeclaredNames(docs[classified[a]].statements,
                            Len(docs[classified[a]].statements))
         /\ \A i, j \in Own(a) :
              /\ result[i].sourceFile = classified[a]
              /\ i < j => result[i].node <= result[j].node
         /\ Contiguous(Block(a))
    /\ \A a, b \in 1..Len(classified) :
         (a < b /\ ~IsWithin(b, a)) => Before(Block(a), Block(b))
    /\ \A e \in Range(followed) :
         \A i \in Own(e.from) :
           /\ result[i].node < e.at => Before({i}, Block(e.to))
           /\ result[i].node > e.at => Before(Block(e.to), {i})
    /\ Cardinality(RootActivations) = Len(EntrySourceFiles(files))
    /\ \A a \in RootActivations :
         classified[a] =
           EntrySourceFiles(files)[Cardinality({b \in RootActivations : b <= a})]

\* C5 witness: the returned list holds the symbols of a document that was
\* followed from the middle of another one and itself followed a third from
\* its middle.
C5_Witness ==
  /\ phase = "returned"
  /\ \E e1, e2 \in Range(followed) :
       /\ e2.from = e1.to
       /\ e1.at > 0
       /\ e2.at > 0
       /\ Cardinality(Block(e1.from)) >= 5


\* ------------------------------------------------------------- C6 .. C10
\* where the innermost activation stands: at a triple-slash reference of its
\* document, or at one of its statements
AtTripleSlash ==
  /\ phase = "running"
  /\ stack # <<>>
  /\ Top.ref <= Len(docs[Top.sourceFile].referencedFiles)

AtNode ==
  /\ phase = "running"
  /\ stack # <<>>
  /\ Top.ref > Len(docs[Top.sourceFile].referencedFiles)
  /\ Top.pc <= Len(docs[Top.sourceFile].statements)

CurrentNode == docs[Top.sourceFile].statements[Top.pc]

AtModuleSpecifier ==
  /\ AtNode
  /\ CurrentNode.kind \in {"ImportDeclaration", "ExportDeclaration"}
  /\ CurrentNode.moduleSpecifier.present

AtLiteralSpecifier ==
  /\ AtModuleSpecifier
  /\ CurrentNode.moduleSpecifier.isStringLiteral

\* the path the triple-slash reference at hand names
TripleSlashTarget ==
  ResolveTripleslashReference(
    docs[Top.sourceFile].referencedFiles[Top.ref], Top.sourceFile)

\* the answer of the resolver for the specifier at hand
SpecifierTarget ==
  ResolveModule(CurrentNode.moduleSpecifier.text, Top.sourceFile)

\* the innermost activation goes on with the node after the one at hand
GoesOn ==
  /\ phase' = "running"
  /\ stack' = Append(Below, [Top EXCEPT !.pc = Top.pc + 1])

\* the document of path t is fetched and its classification begins
Follows(t) ==
  /\ loaded' = Append(loaded, t)
  /\ classified' = Append(classified, t)
  /\ Len(stack') = Len(stack) + 1
  /\ stack'[Len(stack')].sourceFile = t

\* C6: an import declaration and a re-export declaration with a literal
\* module specifier are followed alike.  Whichever of the two the node is,
\* the resolver is called with the specifier's text and the file name of the
\* document that holds the declaration; when it answers with a path not yet
\* visited, that document is loaded and classified next, and otherwise
\* nothing is loaded; and the symbols of every document followed that way
\* are in the returned list.
C6_ImportAndExportFollowedAlike ==
  /\ [][AtLiteralSpecifier =>
          /\ resolveCalls' =
               Append(resolveCalls,
                      <<CurrentNode.moduleSpecifier.text, Top.sourceFile>>)
          /\ IF SpecifierTarget # NoFile
                  /\ SpecifierTarget \notin mergedDontFollow
             THEN Follows(SpecifierTarget)
             ELSE loaded' = loaded /\ classified' = classified /\ GoesOn]_vars
  /\ [](phase = "returned" =>
          \A e \in Range(followed) :
            e.at > 0 => \E i \in 1..Len(result) :
                          /\ result[i].call = e.to
                          /\ result[i].sourceFile = classified[e.to])

\* C6 witness: the call has returned the symbols of a document followed
\* from a re-export, after a resolver call for the re-export's specifier.
C6_Witness ==
  /\ phase = "returned"
  /\ \E e \in Range(followed) :
       /\ e.at > 0
       /\ docs[classified[e.from]].statements[e.at].kind = "ExportDeclaration"
       /\ <<"./b", classified[e.from]>> \in Range(resolveCalls)
       /\ \E i \in 1..Len(result) : result[i].call = e.to

\* C7 (as claimed): on every reference node -- a literal import or re-export
\* specifier, or a triple-slash reference -- the resolver is called once.
C7_EveryReferenceCallsResolver ==
  [][(AtLiteralSpecifier \/ AtTripleSlash) =>
       Len(resolveCalls') = Len(resolveCalls) + 1]_vars

\* C7 (amended): on an import or re-export node with a literal specifier the
\* resolver is called with (specifier, containing file); a triple-slash
\* reference is not handed to the resolver: its path is taken relative to
\* the containing file and looked up directly.
C7_ResolverCalledForModuleSpecifiers ==
  [][/\ AtLiteralSpecifier =>
          /\ Len(resolveCalls') = Len(resolveCalls) + 1
          /\ resolveCalls'[Len(resolveCalls')] =
               <<CurrentNode.moduleSpecifier.text, Top.sourceFile>>
     /\ AtTripleSlash =>
          /\ resolveCalls' = resolveCalls
          /\ IF TripleSlashTarget \in mergedDontFollow
             THEN loaded' = loaded
             ELSE loaded' = Append(loaded, TripleSlashTarget)]_vars

\* C7 witness: the call has returned after following a triple-slash
\* reference and after calling the resolver from a document that is not the
\* first entry.
C7_Witness ==
  /\ phase = "returned"
  /\ \E e \in Range(followed) : e.at = 0
  /\ \E c \in Range(resolveCalls) : c[2] # classified[1]

\* C8 (as claimed): a reference of any kind that names no file is not
\* followed: no load is attempted, nothing is thrown, the traversal goes on.
C8_UnresolvedReferenceOfAnyKindSkipped ==
  [][/\ (AtLiteralSpecifier /\ SpecifierTarget = NoFile) =>
          loaded' = loaded /\ phase' = "running"
     /\ (AtTripleSlash /\ TripleSlashTarget \notin FileSystem) =>
          loaded' = loaded /\ phase' = "running"]_vars

\* C8 (amended): an import or re-export whose specifier the resolver does
\* not resolve is not followed: no load is attempted, nothing is added to
\* the visited set, nothing is thrown and the traversal goes on with the
\* next node.  A triple-slash reference has no such outcome: its path, when
\* not yet visited, is always loaded, and the call throws when the file does
\* not exist.
C8_UnresolvedSpecifierSkipped ==
  [][/\ (AtLiteralSpecifier /\ SpecifierTarget = NoFile) =>
          /\ loaded' = loaded
          /\ classified' = classified
          /\ mergedDontFollow' = mergedDontFollow
          /\ GoesOn
     /\ (AtTripleSlash /\ TripleSlashTarget \notin mergedDontFollow) =>
          /\ loaded' = Append(loaded, TripleSlashTarget)
          /\ TripleSlashTarget \notin FileSystem => phase' = "thrown"]_vars

\* C8 witness: the call has returned the symbols that follow an import the
\* resolver did not resolve.
C8_Witness ==
  /\ phase = "returned"
  /\ \E i \in 1..Len(result) :
       LET statements == docs[result[i].sourceFile].statements IN
       \E n \in 1..Len(statements) :
         /\ n < result[i].node
         /\ statements[n].moduleSpecifier.isStringLiteral
         /\ ResolveModule(statements[n].moduleSpecifier.text,
                          result[i].sourceFile) = NoFile
  /\ \A p \in Range(loaded) : p \in FileSystem

\* a document with an import or re-export whose specifier is no literal
HasNonLiteralSpecifier(f) ==
  \E n \in 1..Len(docs[f].statements) :
    /\ docs[f].statements[n].moduleSpecifier.present
    /\ ~docs[f].statements[n].moduleSpecifier.isStringLiteral

\* C9: when a classified document, entry or not, holds an import or
\* re-export whose module specifier is present but no string literal, the
\* call throws and returns no list, whatever was collected before; a
\* declaration without a module specifier is no error and does not call the
\* resolver.
C9_NonLiteralSpecifierIsFatal ==
  /\ [](phase = "returned" =>
          \A a \in 1..Len(classified) : ~HasNonLiteralSpecifier(classified[a]))
  /\ [][/\ (AtModuleSpecifier /\ ~CurrentNode.moduleSpecifier.isStringLiteral)
             => /\ phase' = "thrown"
                /\ result' = result
                /\ resolveCalls' = resolveCalls
        /\ (AtNode /\ CurrentNode.kind \in {"ImportDeclaration", "ExportDeclaration"}
                   /\ ~CurrentNode.moduleSpecifier.present)
             => /\ GoesOn
                /\ resolveCalls' = resolveCalls
                /\ loaded' = loaded
        /\ phase = "thrown" => phase' = "thrown" /\ result' = result]_vars

\* C9 witness: the call has thrown at a specifier that is no literal, in the
\* second entry, with the symbols of the first entry already accumulated.
C9_Witness ==
  /\ phase = "thrown"
  /\ acc # <<>>
  /\ result = <<>>
  /\ \A p \in Range(loaded) : p \in FileSystem
  /\ HasNonLiteralSpecifier(classified[Len(classified)])

RECURSIVE NodesUnder(_, _)
NodesUnder(node, at) ==
  {[node |-> node, at |-> at]}
    \cup UNION {NodesUnder(node.children[i], Append(at, i)) :
                  i \in 1..Len(node.children)}

TreeNodes == NodesUnder(tree, <<>>)

\* findSymbolNames has visited every node of the tree
Classified == phase = "classifying" /\ pending = <<>>

\* the (name, type) pairs of the symbols pushed for the node at a place, in
\* the order pushed
RECURSIVE NamesAndTypesAt(_, _)
NamesAndTypesAt(syms, at) ==
  IF syms = <<>> THEN <<>>
  ELSE (IF Head(syms).node = at
        THEN <<<<Head(syms).name, Head(syms).type>>>> ELSE <<>>)
         \o NamesAndTypesAt(Tail(syms), at)

\* the identifier names among names, each paired with a type
RECURSIVE IdentifiersWithType(_, _)
IdentifiersWithType(names, type) ==
  IF names = <<>> THEN <<>>
  ELSE (IF Head(names).isIdentifier
        THEN <<<<Head(names).text, type>>>> ELSE <<>>)
         \o IdentifiersWithType(Tail(names), type)

\* DECLARATION for a node that carries the declare modifier, else PROPERTY
TypeByDeclareModifier(node) ==
  IF node.declare THEN "DECLARATION" ELSE "PROPERTY"

\* C11: once the document is classified, the symbols pushed for a variable
\* statement are one per declarator with an identifier name, in the
\* declarators' order, and the symbols pushed for a function, class or enum
\* declaration are one for its identifier name (none without one); each is a
\* DECLARATION exactly when the statement or declaration itself carries the
\* declare modifier, and a PROPERTY otherwise.
C11_DeclaredNamesByDeclareModifier ==
  Classified =>
    \A n \in TreeNodes :
      /\ n.node.kind = "VariableStatement" =>
           NamesAndTypesAt(emitted, n.at) =
             IdentifiersWithType(n.node.names, TypeByDeclareModifier(n.node))
      /\ n.node.kind \in {"FunctionDeclaration", "ClassDeclaration",
                          "EnumDeclaration"} =>
           NamesAndTypesAt(emitted, n.at) =
             IdentifiersWithType(<<n.node.name>>, TypeByDeclareModifier(n.node))

\* C11 witness: the classified document holds a declared variable statement
\* with two declarators, both pushed as DECLARATION, and a function, class
\* or enum without the modifier, pushed as PROPERTY.
C11_Witness ==
  /\ Classified
  /\ \E n \in TreeNodes :
       /\ n.node.kind = "VariableStatement"
       /\ NamesAndTypesAt(emitted, n.at) =
            <<<<"x", "DECLARATION">>, <<"y", "DECLARATION">>>>
  /\ \E n \in TreeNodes :
       /\ n.node.kind \in {"FunctionDeclaration", "ClassDeclaration",
                           "EnumDeclaration"}
       /\ NamesAndTypesAt(emitted, n.at) = <<<<"Foo", "PROPERTY">>>>

MemberKinds ==
  {"PropertySignature", "PropertyDeclaration", "MethodSignature",
   "MethodDeclaration", "PropertyAssignment", "EnumMember"}

\* C12: once the document is classified, every property signature, property
\* declaration, method signature, method declaration, property assignment
\* and enum member with an identifier name has exactly one symbol, and that
\* symbol is a PROPERTY whatever modifiers the member carries.
C12_MembersAlwaysProperty ==
  Classified =>
    \A n \in TreeNodes :
      (n.node.kind \in MemberKinds /\ n.node.name.isIdentifier) =>
        NamesAndTypesAt(emitted, n.at) = <<<<n.node.name.text, "PROPERTY">>>>

\* a module declaration of the namespace flavour
IsNamespace(node) ==
  node.kind = "ModuleDeclaration" /\ NamespaceFlag \in node.flags

\* C13: once the document is classified, a namespace declaration has one
\* symbol for its name, a DECLARATION when the node itself carries the
\* declare modifier and is not flagged as a nested segment of a dotted name,
\* and a PROPERTY in every other case; `declare namespace Parent.Nested
\* { namespace Child {} }` alone gives Parent DECLARATION, Nested PROPERTY,
\* Child PROPERTY in that order.
C13_NamespaceDeclarationOnlyWhenDeclaredAndNotNested ==
  Classified =>
    /\ \A n \in TreeNodes :
         IsNamespace(n.node) =>
           NamesAndTypesAt(emitted, n.at) =
             IdentifiersWithType(
               <<n.node.name>>,
               IF n.node.declare /\ NestedNamespaceFlag \notin n.node.flags
               THEN "DECLARATION" ELSE "PROPERTY")
    /\ (\E n \in TreeNodes :
          /\ IsNamespace(n.node)
          /\ n.node.declare
          /\ Len(tree.children) = 1
          /\ Cardinality({c \in TreeNodes : IsNamespace(c.node)}) = 3)
         => [i \in 1..Len(emitted) |-> <<emitted[i].name, emitted[i].type>>]
              = <<<<"Parent", "DECLARATION">>, <<"Nested", "PROPERTY">>,
                  <<"Child", "PROPERTY">>>>

\* C13 witness: the classified document is `declare namespace Parent.Nested
\* { namespace Child {} }` followed by a namespace that is not declared.
C13_Witness ==
  /\ Classified
  /\ Len(emitted) = 4
  /\ emitted[1].name = "Parent" /\ emitted[1].type = "DECLARATION"
  /\ emitted[2].name = "Nested" /\ emitted[2].type = "PROPERTY"
  /\ emitted[3].name = "Child" /\ emitted[3].type = "PROPERTY"
  /\ emitted[4].name = "Parent" /\ emitted[4].type = "PROPERTY"

\* a module declaration that is not of the namespace flavour
IsModuleNotNamespace(node) ==
  node.kind = "ModuleDeclaration" /\ NamespaceFlag \notin node.flags

\* the place `at` is `under`, or below it in the tree
IsAtOrBelow(at, under) ==
  Len(under) <= Len(at) /\ SubSeq(at, 1, Len(under)) = under

\* C14: a module declaration that is not of the namespace flavour (its flags
\* lack the Namespace bit) is ignored: once the document is classified, no
\* symbol was pushed for it, declared or not, named by an identifier or
\* not.  Only the declaration is ignored, not its body: the statements in
\* it have the symbols their own kind gives them.
C14_ModuleNameIgnored ==
  Classified =>
    \A n \in TreeNodes :
      IsModuleNotNamespace(n.node) =>
        /\ NamesAndTypesAt(emitted, n.at) = <<>>
        /\ \A d \in NodesUnder(n.node, n.at) :
             d.node.kind = "VariableStatement" =>
               NamesAndTypesAt(emitted, d.at) =
                 IdentifiersWithType(d.node.names,
                                     TypeByDeclareModifier(d.node))

\* C14 witness: the classified document holds `declare module Module
\* { const x }`, and the only symbol from it is x.
C14_Witness ==
  /\ Classified
  /\ \E n \in TreeNodes :
       /\ IsModuleNotNamespace(n.node)
       /\ n.node.name = Identifier("Module")
       /\ n.node.declare
       /\ \E i \in 1..Len(emitted) :
            /\ IsAtOrBelow(emitted[i].node, n.at)
            /\ emitted[i].name = "x"

\* the names of the members among nodes that are property or method
\* signatures with an identifier name, each paired with a type
RECURSIVE SignaturesWithType(_, _)
SignaturesWithType(nodes, type) ==
  IF nodes = <<>> THEN <<>>
  ELSE (IF Head(nodes).kind \in {"PropertySignature", "MethodSignature"}
           /\ Head(nodes).name.isIdentifier
        THEN <<<<Head(nodes).name.text, type>>>> ELSE <<>>)
         \o SignaturesWithType(Tail(nodes), type)

\* the (name, type) pairs of the symbols pushed for the children of the
\* node at a place, in the order pushed
RECURSIVE NamesAndTypesOfChildren(_, _)
NamesAndTypesOfChildren(syms, at) ==
  IF syms = <<>> THEN <<>>
  ELSE (IF Len(Head(syms).node) = Len(at) + 1
           /\ IsAtOrBelow(Head(syms).node, at)
        THEN <<<<Head(syms).name, Head(syms).type>>>> ELSE <<>>)
         \o NamesAndTypesOfChildren(Tail(syms), at)

\* C15: once the document is classified, an interface declaration, and a
\* type alias whose body is a type literal, has no symbol for its own name,
\* and the symbols of the members in its body are one PROPERTY for each
\* property or method signature (with an identifier name), in the members'
\* order.
C15_InterfaceMembersAreProperties ==
  Classified =>
    \A n \in TreeNodes :
      /\ n.node.kind = "InterfaceDeclaration" =>
           /\ NamesAndTypesAt(emitted, n.at) = <<>>
           /\ NamesAndTypesOfChildren(emitted, n.at) =
                SignaturesWithType(n.node.children, "PROPERTY")
      /\ (n.node.kind = "TypeAliasDeclaration"
            /\ TypeOfAlias(n.node).kind = "TypeLiteral") =>
           /\ NamesAndTypesAt(emitted, n.at) = <<>>
           /\ NamesAndTypesOfChildren(emitted, Append(n.at, Len(n.node.children))) =
                SignaturesWithType(TypeOfAlias(n.node).children, "PROPERTY")

\* the type alias declarations whose type is a mapped type
MappedAliases ==
  {n \in TreeNodes : /\ n.node.kind = "TypeAliasDeclaration"
                     /\ TypeOfAlias(n.node).kind = "MappedType"}

\* the mapped type of such an alias, and its place
MappedTypeOf(n) == TypeOfAlias(n.node)
MappedTypeAt(n) == Append(n.at, Len(n.node.children))

\* the constraint of the mapped type is there, is no keyof, and the checker
\* evaluates it
IsResolvable(constraint) == constraint.form = "type" /\ ~constraint.throws

\* the string literals among types, each as a PROPERTY of its text
RECURSIVE StringLiteralProperties(_)
StringLiteralProperties(types) ==
  IF types = <<>> THEN <<>>
  ELSE (IF Head(types).kind = "StringLiteral"
        THEN <<<<Head(types).value, "PROPERTY">>>> ELSE <<>>)
         \o StringLiteralProperties(Tail(types))

\* C16: once the document is classified, the symbols pushed for a mapped
\* type whose constraint the checker resolves are exactly one PROPERTY for
\* each string literal among the members of the resolved union, named by
\* the literal's text, in the members' order; a type that is no union is its
\* own single member, and members of any other kind push nothing.
C16_MappedTypeStringLiteralKeys ==
  Classified =>
    \A n \in MappedAliases :
      IsResolvable(MappedTypeOf(n).constraint) =>
        NamesAndTypesAt(emitted, MappedTypeAt(n)) =
          StringLiteralProperties(
            IF MappedTypeOf(n).constraint.type.kind = "Union"
            THEN MappedTypeOf(n).constraint.type.types
            ELSE <<MappedTypeOf(n).constraint.type>>)

\* C16 witness: the classified document holds a mapped type keyed by a
\* union of two string literals with a number and an object type between
\* them, and one keyed by a single string literal; the literals were pushed.
C16_Witness ==
  /\ Classified
  /\ \E n \in MappedAliases :
       /\ Len(MappedTypeOf(n).constraint.type.types) = 4
       /\ NamesAndTypesAt(emitted, MappedTypeAt(n)) =
            <<<<"prop1", "PROPERTY">>, <<"prop2", "PROPERTY">>>>
  /\ \E n \in MappedAliases :
       /\ MappedTypeOf(n).constraint.type.kind = "StringLiteral"
       /\ NamesAndTypesAt(emitted, MappedTypeAt(n)) =
            <<<<"prop1", "PROPERTY">>>>

\* the warnings logged for a mapped alias: at the alias or at its mapped type
WarningsFor(n) ==
  SelectSeq(warnings, LAMBDA w : w.at \in {n.at, MappedTypeAt(n)})

\* the members of the resolved constraint of a mapped alias
MembersOf(n) ==
  IF MappedTypeOf(n).constraint.type.kind = "Union"
  THEN MappedTypeOf(n).constraint.type.types
  ELSE <<MappedTypeOf(n).constraint.type>>

\* a member of the union that is a type parameter or is instantiated with one
HasTypeParameter(member) ==
  \/ member.kind = "TypeParameter"
  \/ \E i \in 1..Len(member.aliasTypeArguments) :
       member.aliasTypeArguments[i].kind = "TypeParameter"

IsUnresolved(n) ==
  /\ IsResolvable(MappedTypeOf(n).constraint)
  /\ \E i \in 1..Len(MembersOf(n)) : HasTypeParameter(MembersOf(n)[i])

\* C17: once the document is classified, a mapped alias with type
\* parameters among the members of its resolved constraint has exactly one
\* warning, which names the alias, its place and the parameters joined by
\* ", " (T, U for the union T | 'prop1' | U | 'prop2'); the string literals
\* of the same union are still pushed as PROPERTY; a mapped type keyed by a
\* type parameter alone has no symbol and one warning; and an alias whose
\* resolved members hold no type parameter has no warning.
C17_OneWarningForUnresolvedTypeParameters ==
  Classified =>
    \A n \in MappedAliases :
      /\ IsUnresolved(n) =>
           /\ Len(WarningsFor(n)) = 1
           /\ WarningsFor(n)[1].message = "contains unresolved type parameter(s)"
           /\ WarningsFor(n)[1].name = n.node.name.text
           /\ WarningsFor(n)[1].at = n.at
           /\ NamesAndTypesAt(emitted, MappedTypeAt(n)) =
                StringLiteralProperties(MembersOf(n))
           /\ (Len(MembersOf(n)) = 4 /\ MembersOf(n)[1].kind = "TypeParameter")
                => WarningsFor(n)[1].parameters = "T, U"
           /\ MappedTypeOf(n).constraint.type.kind = "TypeParameter"
                => /\ WarningsFor(n)[1].parameters = "T"
                   /\ NamesAndTypesAt(emitted, MappedTypeAt(n)) = <<>>
      /\ (IsResolvable(MappedTypeOf(n).constraint) /\ ~IsUnresolved(n))
           => WarningsFor(n) = <<>>

\* C17 witness: the classified document holds the alias keyed by
\* T | 'prop1' | U | 'prop2', with one warning and both literals pushed, and
\* an alias keyed by an instantiation with type parameters.
C17_Witness ==
  /\ Classified
  /\ \E n \in MappedAliases :
       /\ IsUnresolved(n)
       /\ Len(MembersOf(n)) = 4
       /\ Len(WarningsFor(n)) = 1
       /\ NamesAndTypesAt(emitted, MappedTypeAt(n)) =
            <<<<"prop1", "PROPERTY">>, <<"prop2", "PROPERTY">>>>
  /\ \E n \in MappedAliases :
       /\ IsUnresolved(n)
       /\ \E i \in 1..Len(MembersOf(n)) : MembersOf(n)[i].kind = "Object"

\* C18: when the checker throws on the constraint of a mapped type, exactly
\* one warning 'could not be resolved, and was ignored' is logged for it, no
\* symbol is pushed for the mapped type, and no error leaves the visit: the
\* classification is never in the thrown state, it can always go on while
\* nodes are pending, and once the document is classified the members under
\* the mapped type and the variable statements of the document have their
\* symbols.
C18_UnresolvedConstraintRecovered ==
  /\ phase = "classifying"
  /\ pending # <<>> => ENABLED NextClassify
  /\ Classified =>
       \A n \in MappedAliases :
         (MappedTypeOf(n).constraint.form = "type"
            /\ MappedTypeOf(n).constraint.throws) =>
           /\ Len(WarningsFor(n)) = 1
           /\ WarningsFor(n)[1].message = "could not be resolved, and was ignored"
           /\ WarningsFor(n)[1].at = MappedTypeAt(n)
           /\ NamesAndTypesAt(emitted, MappedTypeAt(n)) = <<>>
           /\ \A d \in TreeNodes :
                /\ (d.node.kind = "PropertySignature" /\ ~d.node.declare
                      /\ d.node.name.isIdentifier) =>
                     NamesAndTypesAt(emitted, d.at) =
                       <<<<d.node.name.text, "PROPERTY">>>>
                /\ d.node.kind = "VariableStatement" =>
                     NamesAndTypesAt(emitted, d.at) =
                       IdentifiersWithType(d.node.names,
                                           TypeByDeclareModifier(d.node))

\* C18 witness: the classified document begins with a mapped alias whose
\* constraint the checker threw on; the member in its template and the
\* variable statement after it were pushed after the warning.
C18_Witness ==
  /\ Classified
  /\ Len(tree.children) = 2
  /\ tree.children[1].kind = "TypeAliasDeclaration"
  /\ TypeOfAlias(tree.children[1]).constraint.throws
  /\ tree.children[2].kind = "VariableStatement"
  /\ Len(warnings) = 1
  /\ [i \in 1..Len(emitted) |-> emitted[i].name] = <<"prop", "x">>

\* C19: a mapped type whose constraint is missing or is a keyof type
\* operator is skipped: the checker is never called for it, and once the
\* document is classified no symbol was pushed for the mapped type and no
\* warning logged; for every other mapped type the checker is called once.
C19_AbsentOrKeyOfConstraintSkipped ==
  \A n \in MappedAliases :
    IF MappedTypeOf(n).constraint.form \in {"absent", "keyof"}
    THEN /\ \A i \in 1..Len(checkerCalls) : checkerCalls[i] # MappedTypeAt(n)
         /\ NamesAndTypesAt(emitted, MappedTypeAt(n)) = <<>>
         /\ WarningsFor(n) = <<>>
    ELSE Classified =>
           Cardinality({i \in 1..Len(checkerCalls) :
                          checkerCalls[i] = MappedTypeAt(n)}) = 1

\* C19 witness: the classified document holds a mapped type with a keyof
\* constraint, whose template member was pushed, and a mapped type without
\* constraint; the checker was not called and nothing was logged.
C19_Witness ==
  /\ Classified
  /\ \E n \in MappedAliases : MappedTypeOf(n).constraint.form = "keyof"
  /\ \E n \in MappedAliases : MappedTypeOf(n).constraint.form = "absent"
  /\ [i \in 1..Len(emitted) |-> emitted[i].name] = <<"prop">>
  /\ checkerCalls = <<>>
  /\ warnings = <<>>

\* ---------------------------------------------------------------- C20
\* the caller has called before, and the second call is over
SecondCallOver ==
  /\ previous # <<>>
  /\ phase \in {"returned", "thrown"}

\* the call has just built its Set and has not visited anything yet
CallStarted ==
  /\ phase = "running"
  /\ steps = 1

\* C20: the traversal is stateless across invocations. When a call starts,
\* its visited set holds the resolved entries and the resolved seed and
\* nothing else, whatever the earlier call left in its own; the caller's
\* seed is after the earlier call what it was before it; and a second call
\* with the same entries, seed and documents ends as the first did, with
\* the same symbol list, having classified and loaded the same files.
C20_StatelessAcrossCalls ==
  /\ CallStarted =>
        mergedDontFollow = {PathResolve(p) : p \in Range(files)}
                             \cup {PathResolve(p) : p \in dontFollow}
  /\ previous # <<>> => dontFollow = previous[1].dontFollow
  /\ SecondCallOver =>
        /\ phase = previous[1].phase
        /\ result = previous[1].result
        /\ classified = previous[1].classified
        /\ loaded = previous[1].loaded

\* C20 witness: the earlier call followed a reference and loaded a file that
\* was neither an entry nor in the seed, and the second call has returned a
\* symbol list that is not empty.
C20_Witness ==
  /\ SecondCallOver
  /\ phase = "returned"
  /\ previous[1].loaded # <<>>
  /\ \E i \in 1..Len(previous[1].loaded) :
        PathResolve(previous[1].loaded[i]) \notin
          {PathResolve(p) : p \in Range(files) \cup dontFollow}
  /\ result # <<>>

\* ---------------------------------------------------------------- C24
\* the reference nodes of the documents classified from the root activation b
ReferencesWithin(b) ==
  UNION {References(classified[a]) :
           a \in {c \in 1..Len(classified) :
                    IsWithin(c, b) /\ classified[c] \in FileSystem}}

\* C24: the visited set only grows during a call, and it is one set for all
\* entry files and all activations: no step of the call takes a path out of
\* it, every path loaded so far is in it, and an activation started through
\* a reference is never of a path that an earlier activation of the call
\* classified, whichever entry or frame that was.
C24_VisitedSetGrowsAndIsShared ==
  /\ [][mergedDontFollow \subseteq mergedDontFollow']_vars
  /\ [](phase = "running" =>
         /\ Range(loaded) \subseteq mergedDontFollow
         /\ \A e \in Range(followed) :
              \A a \in 1..(e.to - 1) : classified[a] # classified[e.to])

\* C24 witness: the call has returned after classifying two entries; a
\* document classified from the later entry refers to a file that was loaded
\* while the earlier entry was processed.
C24_Witness ==
  /\ phase = "returned"
  /\ \E a, b \in RootActivations :
       /\ a < b
       /\ \E e \in Range(followed) :
            /\ IsWithin(e.from, a)
            /\ \E r \in ReferencesWithin(b) : r.target = classified[e.to]

\* ---------------------------------------------------------------- C27
\* the entries the filters of getExternalSymbols drop: not in the program,
\* or matching ignored_typings
ExcludedEntries ==
  {f \in Range(files) : ~isDefined(f) \/ ~isNotIgnored(f)}

\* C27: an entry file that is dropped by the ignore filter or is absent
\* from the program is in the visited set all the same, from the moment the
\* set is built; it is never loaded and never classified in the call, also
\* when a classified document refers to it.
C27_ExcludedEntryStillVisited ==
  \A f \in ExcludedEntries :
    /\ phase # "idle" => PathResolve(f) \in mergedDontFollow
    /\ PathResolve(f) \notin Range(loaded)
    /\ PathResolve(f) \notin Range(classified)

\* an excluded entry that a document classified in the call refers to
ReferencedExcludedEntries ==
  {f \in ExcludedEntries :
     \E r \in ClassifiedReferences : r.target = PathResolve(f)}

\* C27 witness: the call has returned, and a document classified from
\* another entry refers to an entry that is absent from the program or
\* matches the ignore filter.
C27_Witness ==
  /\ phase = "returned"
  /\ ReferencedExcludedEntries # {}

\* ---------------------------------------------------------------- C28
\* the activations of findSymbolNames started by loadReferencedFile
ReachedActivations == {e.to : e \in Range(followed)}

\* C28: at every point of a traversal the canonical path of every document
\* reached through references, being classified or already classified, is
\* in the visited set.  The path is inserted before the document is read:
\* every path handed to readFileSync is in the set, also the one whose read
\* threw and ended the call, and so is every document read so far.
C28_ReachedDocumentsAreVisited ==
  /\ \A a \in ReachedActivations : classified[a] \in mergedDontFollow
  /\ \A i \in 2..Len(stack) : stack[i].sourceFile \in mergedDontFollow
  /\ Range(loaded) \subseteq mergedDontFollow
  /\ \A p \in FileSystem : docs[p].read => p \in mergedDontFollow

\* C28 witness: a document was reached through a reference and classified,
\* and the call ended when a later reference named a file that could not be
\* read; the path of that file is in the visited set.
C28_Witness ==
  /\ phase = "thrown"
  /\ ReachedActivations # {}
  /\ loaded[Len(loaded)] \notin FileSystem
  /\ loaded[Len(loaded)] \in mergedDontFollow

\* ---------------------------------------------------------------- C29
\* the entries that are classified: the paths of the filtered source files
ClassifiedEntries == {PathResolve(f) : f \in Range(EntrySourceFiles(files))}

\* the reference nodes of classified documents that name another file which
\* is a classified entry
ReferencesToEntries ==
  {r \in ClassifiedReferences :
     r.target \in ClassifiedEntries /\ r.target # r.from}

\* the places of the result that hold symbols of the document of file q
SymbolsOf(q) == {i \in 1..Len(result) : result[i].sourceFile = q}

WarningsWith(n, message) ==
  SelectSeq(WarningsFor(n), LAMBDA w : w.message = message)

ConstraintWarnings(n) ==
  WarningsWith(n, warnUnresolvedConstraintType(MappedTypeAt(n)).message)

TypeParameterWarnings(n) ==
  WarningsWith(n, warnUnresolvedTypeParameters(n.node, n.at, <<>>).message)

\* C30: at every point of the classification one mapped type has at most
\* one warning.  It is the warning that the constraint could not be
\* resolved only where the checker threw, and then no symbol is pushed for
\* the mapped type and no warning about type parameters is logged; it is
\* the warning about unresolved type parameters only where the resolved
\* members hold a type parameter; and a mapped type whose constraint
\* resolves to members without type parameters has no warning at all.
C30_AtMostOneWarningPerMappedType ==
  \A n \in MappedAliases :
    /\ Len(WarningsFor(n)) <= 1
    /\ Len(WarningsFor(n)) =
         Len(ConstraintWarnings(n)) + Len(TypeParameterWarnings(n))
    /\ ConstraintWarnings(n) # <<>> =>
         /\ MappedTypeOf(n).constraint.throws
         /\ TypeParameterWarnings(n) = <<>>
         /\ NamesAndTypesAt(emitted, MappedTypeAt(n)) = <<>>
    /\ TypeParameterWarnings(n) # <<>> =>
         /\ IsUnresolved(n)
         /\ ConstraintWarnings(n) = <<>>
    /\ (IsResolvable(MappedTypeOf(n).constraint) /\ ~IsUnresolved(n)) =>
         WarningsFor(n) = <<>>

\* C30 witness: the classified document holds a mapped type the checker
\* threw on and a mapped type keyed by an instantiation without type
\* parameters; the only warning is the one for the first.
C30_Witness ==
  /\ Classified
  /\ \E n \in MappedAliases :
       /\ Len(ConstraintWarnings(n)) = 1
       /\ TypeParameterWarnings(n) = <<>>
  /\ \E n \in MappedAliases :
       /\ IsResolvable(MappedTypeOf(n).constraint)
       /\ MappedTypeOf(n).constraint.type.aliasTypeArguments # <<>>
       /\ WarningsFor(n) = <<>>
  /\ Len(warnings) = 1

\* ------------------------------------------------------------ C21, C22
\* the place of the first '/' of a name, 0 when it has none
FirstSlash(name) ==
  IF \E i \in 1..Len(name) : name[i] = "/"
  THEN CHOOSE i \in 1..Len(name) :
         name[i] = "/" /\ \A j \in 1..(i - 1) : name[j] # "/"
  ELSE 0

\* the name begins with the seven characters @types/
BeginsWithAtTypesSlash(name) ==
  /\ Len(name) >= 7
  /\ name[1] = "@" /\ name[2] = "t" /\ name[3] = "y" /\ name[4] = "p"
  /\ name[5] = "e" /\ name[6] = "s" /\ name[7] = "/"

\* @b/-/a, a scoped name with a hyphen and a second slash
ScopedExample == <<"@", "b", "/", "-", "/", "a">>

\* C21: moduleNameToTypesModule returns null exactly for the names that
\* begin with @types/.  For any other name @scope/rest it returns @types/
\* followed by scope, two underscores and rest: the leading @ is gone, only
\* the first slash is replaced and every other character, hyphens and later
\* slashes included, is kept.  For a name that does not begin with @ it
\* returns @types/ followed by the name unchanged.
C21_TypesModuleOfName ==
  "typesModule" \in converted.done =>
    LET name == request.moduleName
        out == converted.typesModule
        k == FirstSlash(name)
    IN /\ out = Null <=> BeginsWithAtTypesSlash(name)
       /\ (Len(name) > 0 /\ name[1] = "@" /\ k > 0
             /\ ~BeginsWithAtTypesSlash(name)) =>
            out = <<"@", "t", "y", "p", "e", "s", "/">>
                    \o SubSeq(name, 2, k - 1) \o <<"_", "_">>
                    \o SubSeq(name, k + 1, Len(name))
       /\ (Len(name) = 0 \/ name[1] # "@") =>
            out = <<"@", "t", "y", "p", "e", "s", "/">> \o name

\* C21 witness: the scoped name @b/-/a was converted to @types/b__-/a.
C21_Witness ==
  /\ "typesModule" \in converted.done
  /\ request.moduleName = ScopedExample
  /\ converted.typesModule =
       <<"@", "t", "y", "p", "e", "s", "/", "b", "_", "_", "-", "/", "a">>

\* the character with '-' turned into '_'
Underscored(c) == IF c = "-" THEN "_" ELSE c

Ancestry(from) ==
  LET absolute == Canonical(from)
  IN <<from>> \o [i \in 1..(Len(absolute) - 1) |->
                   SubSeq(absolute, 1, Len(absolute) - i)]

\* <dir>/node_modules/<moduleName> for each directory of the walk
ExpectedProbes(name) ==
  [i \in 1..Len(Ancestry(request.from)) |->
     Ancestry(request.from)[i] \o <<"node_modules">> \o Split(name, <<>>)]

\* the levels of the walk at which the package exists
LevelsWithPackage(name) ==
  {i \in 1..Len(ExpectedProbes(name)) :
     Canonical(ExpectedProbes(name)[i]) \in request.fileSystem}

\* the paths handed to existsSync by the search for name, in order
ProbesOf(name) ==
  LET of == SelectSeq(probed, LAMBDA probe : probe.moduleName = name)
  IN [i \in 1..Len(of) |-> of[i].path]

\* the names findPackage is called with, in order
SearchedNames ==
  <<request.moduleName>>
    \o (IF BeginsWithAtTypesSlash(request.moduleName) THEN <<>>
        ELSE <<moduleNameToTypesModule(request.moduleName)>>)

\* the searches that are over, and what each returned
ReturnedSearches ==
  {k \in 1..Len(SearchedNames) : k <= Len(globs)}

\* C26: findPackage probes <dir>/node_modules/<moduleName> for the
\* starting directory and then for each ancestor in turn, up to and
\* including the root, and stops at the first probe that exists.  It returns
\* that probe path, the one of the nearest directory with the package, and
\* returns null after probing every level when none has it.  The search
\* always ends: the steps taken are bounded by the number of levels, and
\* until the call has returned either the loop takes its next turn or a
\* step outside the loop can be taken.
C26_FindPackageWalksUpToRoot ==
  /\ \A k \in 1..Len(SearchedNames) :
       LET name == SearchedNames[k]
           expected == ExpectedProbes(name)
           levels == LevelsWithPackage(name)
           probes == ProbesOf(name)
       IN /\ Len(probes) <= Len(expected)
          /\ probes = SubSeq(expected, 1, Len(probes))
          /\ k \in ReturnedSearches =>
               IF levels = {}
               THEN /\ probes = expected
                    /\ globs[k].modulePath = Null
               ELSE LET nearest == CHOOSE i \in levels :
                                     \A j \in levels : i <= j
                    IN /\ Len(probes) = nearest
                       /\ globs[k].modulePath = expected[nearest]
  /\ steps <= 3 + 2 * (Len(Ancestry(request.from)) + 1)
  /\ phase # "returned" =>
       \/ InLoop
       \/ ENABLED (AttemptResolve \/ AttemptResolveTypesModule
                     \/ FindPackageNull \/ ApplyDefaults)

\* C26 witness: the search started two directories below the root; one
\* search found the package at the root although it was there only, after
\* probing all three levels, and one search returned null after probing all
\* three levels.
C26_Witness ==
  /\ phase = "returned"
  /\ Len(Ancestry(request.from)) = 3
  /\ Len(SearchedNames) = 2
  /\ LevelsWithPackage(SearchedNames[1]) = {3}
  /\ globs[1].modulePath = ExpectedProbes(SearchedNames[1])[3]
  /\ LevelsWithPackage(SearchedNames[2]) = {}
  /\ globs[2].modulePath = Null
  /\ Len(probed) = 6

\* ---------------------------------------------------------------- C23
\* the glob of the package directory at one level of the walk
GlobAt(name, level) ==
  ExpectedProbes(name)[level] \o <<"**", "*.d.ts">>

\* the glob of the nearest directory that has the package, if any has
NearestGlob(name) ==
  IF LevelsWithPackage(name) = {} THEN <<>>
  ELSE <<GlobAt(name, CHOOSE i \in LevelsWithPackage(name) :
                        \A j \in LevelsWithPackage(name) : i <= j)>>

\* the caller's additional globs, those that are not the empty string
GivenGlobs ==
  IF request.declarationGlobs = Null THEN <<>>
  ELSE SelectSeq(request.declarationGlobs, LAMBDA glob : glob # <<>>)

\* the caller's identifier and externImports override the defaults
OverridesApplied ==
  /\ library.moduleName = request.moduleName
  /\ library.identifier =
       (IF request.identifier # Null THEN request.identifier
        ELSE moduleNameToIdentifier(request.moduleName))
  /\ library.externImports =
       (IF request.externImports # Null THEN request.externImports ELSE <<>>)

NamesAndTypes(syms) ==
  [i \in 1..Len(syms) |-> <<syms[i].name, syms[i].type>>]

\* a list of symbols without those pushed for the mapped types
WithoutMappedTypeKeys(syms) ==
  SelectSeq2(syms, {sym \in Range(syms) :
                      sym.node \notin {MappedTypeAt(n) : n \in MappedAliases}})

\* C25: when both variants have classified the same document of the same
\* entry (a file of the compilation unit, which both variants keep), the
\* (name, type) pairs of the variant without a checker are, in the same
\* order, those of the variant with a checker without the symbols pushed
\* for mapped types; the two lists are equal for a document without a
\* mapped-type alias; and the variant without a checker has one PROPERTY
\* for each member of an interface declaration, in the members' order.
C25_VariantsAgreeButForMappedTypeKeys ==
  (Classified /\ ClassifiedByChecker /\ ClassifiedByLightweight) =>
    /\ NamesAndTypes(emittedLightweight) =
         NamesAndTypes(WithoutMappedTypeKeys(emitted))
    /\ MappedAliases = {} =>
         NamesAndTypes(emittedLightweight) = NamesAndTypes(emitted)
    /\ \A n \in TreeNodes :
         n.node.kind = "InterfaceDeclaration" =>
           NamesAndTypesOfChildren(emittedLightweight, n.at) =
             SignaturesWithType(n.node.children, "PROPERTY")

====
